---- MODULE Spec2Model ----
(***************************************************************************)
(* picgo-plugin-backblaze: the upload entry point (index.js, handle) and   *)
(* the delete operation (gui.js, deleteB2File) against a Backblaze B2      *)
(* bucket.                                                                 *)
(*                                                                         *)
(* Text is a sequence of one-character strings, so that percent-encoding,  *)
(* slicing and concatenation are computed character by character.  Opaque  *)
(* values that the code only copies or compares (tokens, origins such as   *)
(* "https://f1") are single atoms.  A JavaScript undefined is the atom     *)
(* Undefined; an undefined text is <<Undefined>>.                          *)
(***************************************************************************)
EXTENDS Integers, Sequences, FiniteSets, TLC

\* ------------------------------------------------------------------ bounds

\* Longest batch (ctx.output) the host hands to handle.
MaxItems == 2
\* Largest value Date.now() takes in a run.
MaxClock == 2
\* Most file versions the bucket holds when a delete operation starts.
MaxStored == 2
\* Longest file list a list response carries.
MaxListing == 2
\* Most files a 'remove' event names.
MaxRemoved == 2

\* ----------------------------------------------------- JavaScript values

Undefined == "undefined"

\* !x for an atom: undefined and '' are falsy.
Falsy(x) == x = Undefined \/ x = ""

\* !s for a text: undefined and '' are falsy.
FalsyText(s) == s = <<>> \/ s = <<Undefined>>

\* a || b on atoms.
OrElse(a, b) == IF Falsy(a) THEN b ELSE a

\* s.endsWith(c) for a one-character c.
EndsWithChar(s, c) == Len(s) > 0 /\ s[Len(s)] = c

\* s.slice(0, -1)
DropLast(s) == SubSeq(s, 1, Len(s) - 1)

\* s.lastIndexOf(c), 0-based as in JavaScript; -1 when c does not occur.
LastIndexOf(s, c) ==
  LET hits == {i \in 1..Len(s) : s[i] = c}
  IN  IF hits = {} THEN -1 ELSE (CHOOSE i \in hits : \A j \in hits : j <= i) - 1

\* s.substring(a, b): a negative index counts as 0, an index past the end as
\* the length, and the two are swapped when a > b.
Substring(s, a, b) ==
  LET clamp(x) == IF x < 0 THEN 0 ELSE IF x > Len(s) THEN Len(s) ELSE x
      lo == IF clamp(a) <= clamp(b) THEN clamp(a) ELSE clamp(b)
      hi == IF clamp(a) <= clamp(b) THEN clamp(b) ELSE clamp(a)
  IN  SubSeq(s, lo + 1, hi)

\* s.substring(a)
SubstringFrom(s, a) == Substring(s, a, Len(s))

\* ------------------------------------------------------- number rendering

DecDigit(d) == <<"0", "1", "2", "3", "4", "5", "6", "7", "8", "9">>[d + 1]

\* String(n) for a natural number.
RECURSIVE Decimal(_)
Decimal(n) == IF n < 10 THEN <<DecDigit(n)>> ELSE Decimal(n \div 10) \o <<DecDigit(n % 10)>>

HexDigit(d) ==
  <<"0", "1", "2", "3", "4", "5", "6", "7", "8", "9", "a", "b", "c", "d", "e", "f">>[d + 1]

\* ---------------------------------------------------------------- sha1

\* The digest library is outside the repository: a 16-bit rolling digest
\* stands in for the 160-bit one.  It is a function of exactly the bytes
\* given, rendered in lower-case hex.
RECURSIVE Digest(_, _)
Digest(bytes, h) ==
  IF bytes = <<>> THEN h ELSE Digest(Tail(bytes), (h * 31 + Head(bytes) + 1) % 65536)

sha1(buffer) ==
  LET h == Digest(buffer, 7)
  IN  <<HexDigit(h \div 4096), HexDigit((h \div 256) % 16),
        HexDigit((h \div 16) % 16), HexDigit(h % 16)>>

\* ------------------------------------------------- encodeURIComponent

\* Unreserved characters pass; every other character of the model's
\* alphabet becomes its %XX escape.
EncodeChar(c) ==
  CASE c = "/" -> <<"%", "2", "F">>
    [] c = " " -> <<"%", "2", "0">>
    [] c = "%" -> <<"%", "2", "5">>
    [] c = ":" -> <<"%", "3", "A">>
    [] OTHER -> <<c>>

RECURSIVE encodeURIComponent(_)
encodeURIComponent(s) ==
  IF s = <<>> THEN <<>> ELSE EncodeChar(Head(s)) \o encodeURIComponent(Tail(s))

\* ------------------------------------------------ generateUniqueFileName

\* `${baseName}_${timestamp}_${randomStr}${ext}` with Date.now() = timestamp
\* and Math.random().toString(36).substring(2, 8) = randomStr.
generateUniqueFileName(originalName, timestamp, randomStr) ==
  LET dot == LastIndexOf(originalName, ".")
      ext == SubstringFrom(originalName, dot)
      baseName == Substring(originalName, 0, dot)
  IN  baseName \o <<"_">> \o Decimal(timestamp) \o <<"_">> \o randomStr \o ext

\* The storage key of handle's loop body: the unique name behind the prefix.
UploadFileName(fileName, pathPrefix, timestamp, randomStr) ==
  LET unique == generateUniqueFileName(fileName, timestamp, randomStr)
  IN  IF FalsyText(pathPrefix) THEN unique
      ELSE (IF EndsWithChar(pathPrefix, "/") THEN pathPrefix ELSE pathPrefix \o <<"/">>)
             \o unique

\* ---------------------------------------------------------- buildFileUrl

\* Mutant: the key goes into the URL as it is.
buildFileUrlUnencoded(downloadUrl, bucketName, fileName, customDomain) ==
  IF ~FalsyText(customDomain)
  THEN LET domain == IF EndsWithChar(customDomain, "/") THEN DropLast(customDomain)
                     ELSE customDomain
       IN  domain \o <<"/">> \o fileName
  ELSE <<downloadUrl>> \o <<"/", "f", "i", "l", "e", "/">> \o bucketName \o <<"/">>
         \o fileName

buildFileUrl(downloadUrl, bucketName, fileName, customDomain) ==
  IF ~FalsyText(customDomain)
  THEN LET domain == IF EndsWithChar(customDomain, "/") THEN DropLast(customDomain)
                     ELSE customDomain
       IN  domain \o <<"/">> \o encodeURIComponent(fileName)
  ELSE <<downloadUrl>> \o <<"/", "f", "i", "l", "e", "/">> \o bucketName \o <<"/">>
         \o encodeURIComponent(fileName)

\* ------------------------------------------------------- content type

\* String.prototype.toLowerCase on the letters of the model's alphabet.
LowerChar(c) ==
  CASE c = "P" -> "p" [] c = "N" -> "n" [] c = "G" -> "g" [] c = "J" -> "j"
    [] c = "E" -> "e" [] c = "I" -> "i" [] c = "F" -> "f" [] c = "W" -> "w"
    [] c = "B" -> "b" [] c = "S" -> "s" [] c = "V" -> "v" [] c = "M" -> "m"
    [] c = "C" -> "c" [] c = "O" -> "o" [] c = "T" -> "t" [] c = "X" -> "x"
    [] OTHER -> c

toLowerCase(s) == [i \in 1..Len(s) |-> LowerChar(s[i])]

\* Mutant: the extension is looked up as it is written.
contentTypeOfCaseSensitive(extname) ==
  LET ext == IF extname = <<Undefined>> THEN <<>> ELSE extname
  IN  CASE ext = <<".", "j", "p", "g">> -> "image/jpeg"
        [] ext = <<".", "j", "p", "e", "g">> -> "image/jpeg"
        [] ext = <<".", "p", "n", "g">> -> "image/png"
        [] ext = <<".", "g", "i", "f">> -> "image/gif"
        [] ext = <<".", "w", "e", "b", "p">> -> "image/webp"
        [] ext = <<".", "s", "v", "g">> -> "image/svg+xml"
        [] ext = <<".", "b", "m", "p">> -> "image/bmp"
        [] ext = <<".", "i", "c", "o">> -> "image/x-icon"
        [] OTHER -> "application/octet-stream"

\* contentTypeMap[ext] || 'application/octet-stream', with
\* ext = item.extname?.toLowerCase() || ''.
contentTypeOf(extname) ==
  LET ext == IF extname = <<Undefined>> THEN <<>> ELSE toLowerCase(extname)
  IN  CASE ext = <<".", "j", "p", "g">> -> "image/jpeg"
        [] ext = <<".", "j", "p", "e", "g">> -> "image/jpeg"
        [] ext = <<".", "p", "n", "g">> -> "image/png"
        [] ext = <<".", "g", "i", "f">> -> "image/gif"
        [] ext = <<".", "w", "e", "b", "p">> -> "image/webp"
        [] ext = <<".", "s", "v", "g">> -> "image/svg+xml"
        [] ext = <<".", "b", "m", "p">> -> "image/bmp"
        [] ext = <<".", "i", "c", "o">> -> "image/x-icon"
        [] OTHER -> "application/octet-stream"

\* ------------------------------------------------- transport results

\* A JSON value as the code reads it: its type, its truthiness, whether it
\* is a string that JSON.parse accepts (the fields are then those of the
\* parsed object), and the fields the code looks at.  statusCode and status
\* are {} when the field is absent and {n} when it holds the number n.
NoValue ==
  [t |-> "undefined", truthy |-> FALSE, json |-> FALSE,
   statusCode |-> {}, status |-> {},
   apiUrl |-> Undefined, downloadUrl |-> Undefined,
   authorizationToken |-> Undefined, uploadUrl |-> Undefined,
   message |-> Undefined, files |-> <<>>]

Null == [NoValue EXCEPT !.t = "null"]
Obj == [NoValue EXCEPT !.t = "object", !.truthy = TRUE]
Text == [NoValue EXCEPT !.t = "string", !.truthy = TRUE]

\* What a transport resolves with: the object itself (self) and its body
\* and data fields (NoValue when the object has no such field).
Direct(p) == [self |-> p, body |-> NoValue, data |-> NoValue]
Wrapped(sc, p) == [self |-> [Obj EXCEPT !.statusCode = {sc}], body |-> p, data |-> NoValue]
Axios(st, p) == [self |-> [Obj EXCEPT !.status = {st}], body |-> NoValue, data |-> p]

\* An awaited request either rejects or resolves with a result.
Rejected == [rejected |-> TRUE, result |-> Direct(NoValue)]
Resolved(raw) == [rejected |-> FALSE, result |-> raw]

\* if (typeof body === 'string') { try { body = JSON.parse(body) } catch {} }
ParseIfString(p) ==
  IF p.t = "string" /\ p.json THEN [p EXCEPT !.t = "object", !.truthy = TRUE, !.json = FALSE]
  ELSE p

\* a || b on JSON values.
OrValue(a, b) == IF a.truthy THEN a ELSE b

\* a || b on optional numbers: absent and 0 are falsy.
OrNumber(a, b) == IF a # {} /\ a # {0} THEN a ELSE b

\* Mutant: an object without status, body and data is read as a wrapper.
parseResponseAlwaysWrapper(result) ==
  IF result.self.t = "object"
  THEN LET statusCode == OrNumber(result.self.statusCode, result.self.status)
       IN  IF statusCode # {} /\ statusCode # {0}
              /\ \E n \in statusCode : n < 200 \/ n >= 300
           THEN [statusCode |-> statusCode,
                 body |-> ParseIfString(OrValue(result.body, OrValue(result.data, result.self)))]
           ELSE [statusCode |-> {200},
                 body |-> ParseIfString(OrValue(result.body, result.data))]
  ELSE [statusCode |-> {}, body |-> result.self]

parseResponse(result) ==
  IF result.self.t = "object"
  THEN LET statusCode == OrNumber(result.self.statusCode, result.self.status)
       IN  IF statusCode # {} /\ statusCode # {0}
              /\ \E n \in statusCode : n < 200 \/ n >= 300
           THEN [statusCode |-> statusCode,
                 body |-> ParseIfString(OrValue(result.body, OrValue(result.data, result.self)))]
           ELSE IF result.body.t # "undefined" \/ result.data.t # "undefined"
           THEN [statusCode |-> {200},
                 body |-> ParseIfString(OrValue(result.body, result.data))]
           ELSE [statusCode |-> {200}, body |-> result.self]
  ELSE [statusCode |-> {}, body |-> result.self]

\* ---------------------------------------------------------------- errors

\* A thrown Error: the fixed part of its message and the interpolated part.
Err(msg, detail) == [msg |-> msg, detail |-> detail]
NoError == Err("", "")

\* body && typeof body === 'object' ? body.message : 'Unknown error'
ErrorMsgOf(body) == IF body.t = "object" THEN body.message ELSE "Unknown error"

\* ------------------------------------------------------------- requests

\* One call of the transport.  Fields a request does not carry hold
\* Undefined, <<>> or 0.
NoRequest ==
  [op |-> "none", url |-> Undefined, authorization |-> Undefined,
   keyId |-> Undefined, key |-> Undefined,
   bucketId |-> Undefined, prefix |-> <<>>, maxFileCount |-> 0,
   fileId |-> Undefined, fileName |-> <<>>,
   contentType |-> Undefined, contentSha1 |-> <<>>, contentLength |-> 0,
   body |-> <<>>, item |-> 0]

\* Basic base64(keyId:key) is carried as the pair it encodes.
AuthorizeRequest(applicationKeyId, applicationKey) ==
  [NoRequest EXCEPT !.op = "b2_authorize_account",
                    !.url = "https://api.backblazeb2.com",
                    !.keyId = applicationKeyId, !.key = applicationKey]

\* Mutant: the token and the bucket id change places.
GetUploadUrlRequestSwapped(apiUrl, authToken, bucketId) ==
  [NoRequest EXCEPT !.op = "b2_get_upload_url", !.url = apiUrl,
                    !.authorization = bucketId, !.bucketId = authToken]

GetUploadUrlRequest(apiUrl, authToken, bucketId) ==
  [NoRequest EXCEPT !.op = "b2_get_upload_url", !.url = apiUrl,
                    !.authorization = authToken, !.bucketId = bucketId]

\* buffer.toString('utf8') and back: a byte that is no valid UTF-8 comes
\* back as the three bytes of U+FFFD.
RECURSIVE Reencoded(_)
Reencoded(bytes) ==
  IF bytes = <<>> THEN <<>>
  ELSE (IF Head(bytes) >= 128 THEN <<239, 191, 189>> ELSE <<Head(bytes)>>)
         \o Reencoded(Tail(bytes))

\* Mutant: the checksum and the length are taken of the buffer as text.
UploadFileRequestReencoded(uploadUrl, uploadAuthToken, fileBuffer, fileName, contentType, item) ==
  [NoRequest EXCEPT !.op = "b2_upload_file", !.url = uploadUrl,
                    !.authorization = uploadAuthToken,
                    !.fileName = encodeURIComponent(fileName),
                    !.contentType = OrElse(contentType, "application/octet-stream"),
                    !.contentSha1 = sha1(Reencoded(fileBuffer)),
                    !.contentLength = Len(Reencoded(fileBuffer)),
                    !.body = fileBuffer, !.item = item]

UploadFileRequest(uploadUrl, uploadAuthToken, fileBuffer, fileName, contentType, item) ==
  [NoRequest EXCEPT !.op = "b2_upload_file", !.url = uploadUrl,
                    !.authorization = uploadAuthToken,
                    !.fileName = encodeURIComponent(fileName),
                    !.contentType = OrElse(contentType, "application/octet-stream"),
                    !.contentSha1 = sha1(fileBuffer),
                    !.contentLength = Len(fileBuffer),
                    !.body = fileBuffer, !.item = item]

\* Mutant: the list request names no prefix.
ListFileNamesRequestNoPrefix(apiUrl, authToken, bucketId, fileName) ==
  [NoRequest EXCEPT !.op = "b2_list_file_names", !.url = apiUrl,
                    !.authorization = authToken, !.bucketId = bucketId,
                    !.maxFileCount = 1]

ListFileNamesRequest(apiUrl, authToken, bucketId, fileName) ==
  [NoRequest EXCEPT !.op = "b2_list_file_names", !.url = apiUrl,
                    !.authorization = authToken, !.bucketId = bucketId,
                    !.prefix = fileName, !.maxFileCount = 1]

DeleteFileVersionRequest(apiUrl, authToken, fileId, fileName) ==
  [NoRequest EXCEPT !.op = "b2_delete_file_version", !.url = apiUrl,
                    !.authorization = authToken, !.fileId = fileId,
                    !.fileName = fileName]

\* ---------------------------------------------------------- configuration

\* ctx.getConfig('picBed.b2'): present is FALSE when it returns undefined.
ConfigOf(keyId, key, bucketId, bucketName, customDomain, pathPrefix) ==
  [present |-> TRUE, applicationKeyId |-> keyId, applicationKey |-> key,
   bucketId |-> bucketId, bucketName |-> bucketName,
   customDomain |-> customDomain, pathPrefix |-> pathPrefix]

GoodConfig == ConfigOf("keyId1", "appKey1", "bucket1", <<"b">>, <<Undefined>>, <<Undefined>>)

NoConfig == [GoodConfig EXCEPT !.present = FALSE]

\* The configurations of a run: absent, a required field missing or empty,
\* and complete ones with and without a custom domain and a path prefix.
Configs ==
  { NoConfig,
    [GoodConfig EXCEPT !.applicationKeyId = Undefined],
    [GoodConfig EXCEPT !.applicationKey = ""],
    [GoodConfig EXCEPT !.bucketId = Undefined],
    [GoodConfig EXCEPT !.bucketName = <<>>],
    GoodConfig,
    [GoodConfig EXCEPT !.customDomain = <<>>, !.pathPrefix = <<"p">>],
    [GoodConfig EXCEPT !.customDomain = <<"https://cdn">>, !.pathPrefix = <<"p", "/">>],
    [GoodConfig EXCEPT !.customDomain = <<"https://cdn", "/">>],
    [GoodConfig EXCEPT !.customDomain = <<"https://cdn", "/", "/">>] }

\* Mutant: the bucket name is not checked.
MissingRequiredNoBucketName(cfg) ==
  \/ Falsy(cfg.applicationKeyId)
  \/ Falsy(cfg.applicationKey)
  \/ Falsy(cfg.bucketId)

\* !applicationKeyId || !applicationKey || !bucketId || !bucketName
MissingRequired(cfg) ==
  \/ Falsy(cfg.applicationKeyId)
  \/ Falsy(cfg.applicationKey)
  \/ Falsy(cfg.bucketId)
  \/ FalsyText(cfg.bucketName)

\* ------------------------------------------------------------------ items

\* item.buffer: some is FALSE when the item has no buffer.
Buffer(bytes) == [some |-> TRUE, bytes |-> bytes]
NoBuffer == [some |-> FALSE, bytes |-> <<>>]

Item(buffer, fileName, extname) ==
  [buffer |-> buffer, fileName |-> fileName, extname |-> extname,
   imgUrl |-> <<Undefined>>, url |-> <<Undefined>>]

\* The items a batch is made of: a picture, a name without a dot carrying
\* an empty buffer, and an item that has no buffer.
Items ==
  { Item(Buffer(<<65, 200>>), <<"a", ".", "p", "n", "g">>, <<".", "p", "n", "g">>),
    Item(Buffer(<<>>), <<"n">>, <<>>),
    Item(NoBuffer, <<"a", " ", "b", ".", "J", "P", "G">>, <<".", "J", "P", "G">>) }

RECURSIVE SeqsUpTo(_, _)
SeqsUpTo(S, n) ==
  IF n = 0 THEN {<<>>}
  ELSE LET shorter == SeqsUpTo(S, n - 1)
       IN  shorter \cup {Append(q, x) : q \in {r \in shorter : Len(r) = n - 1}, x \in S}

Batches == SeqsUpTo(Items, MaxItems)

\* Math.random().toString(36).substring(2, 8): six characters as a rule,
\* fewer when the fraction's base-36 expansion is short (0.5 gives "i").
RandomStrs == { <<"k", "3", "x", "9", "a", "b">>, <<"i">> }

\* ------------------------------------------------------ one operation

NoSession == [apiUrl |-> Undefined, authToken |-> Undefined, downloadUrl |-> Undefined]
NoUploadInfo == [uploadUrl |-> Undefined, uploadAuthToken |-> Undefined]
NoResult == [success |-> FALSE, message |-> ""]

\* The state of one public operation: which one it is, where it stands, its
\* locals, what it has sent and received, what it has told the host and
\* what it has logged.
\* allOk (every answer so far was the service's own and a success) and
\* before (the bucket when the operation started) record the run.
\* One call of the logger: its level, the fixed text of the line, and the
\* texts put into it (a number in decimal, an error's message as its fixed
\* part and its detail).
Log(level, text, args) == [level |-> level, text |-> text, args |-> args]

IdleOp ==
  [kind |-> "none", pc |-> "idle",
   output |-> <<>>, i |-> 0, uploadFileName |-> <<>>,
   auth |-> NoSession, uploadInfo |-> NoUploadInfo,
   target |-> <<>>, result |-> NoResult, allOk |-> TRUE,
   error |-> NoError, failedIn |-> "", before |-> {},
   reqs |-> <<>>, resps |-> <<>>, notifications |-> <<>>, log |-> <<>>]

Notification(body) == [title |-> "B2 Upload Error", body |-> body]

\* ------------------------------------------------------------ upload flow

\* Mutant: the session's downloadUrl is the API URL whatever was answered.
authorizeAccountNoDownloadUrl(outcome) ==
  IF outcome.rejected
  THEN [ok |-> FALSE, error |-> Err("Authorization request failed", "transport"),
        session |-> NoSession]
  ELSE LET parsed == parseResponse(outcome.result)
           body == parsed.body
       IN  IF parsed.statusCode # {200}
           THEN [ok |-> FALSE, error |-> Err("Authorization failed", ErrorMsgOf(body)),
                 session |-> NoSession]
           ELSE IF ~body.truthy \/ body.t # "object"
           THEN [ok |-> FALSE,
                 error |-> Err("Authorization response is empty or invalid", ""),
                 session |-> NoSession]
           ELSE IF Falsy(body.apiUrl) \/ Falsy(body.authorizationToken)
           THEN [ok |-> FALSE,
                 error |-> Err("Authorization response missing apiUrl or authorizationToken", ""),
                 session |-> NoSession]
           ELSE [ok |-> TRUE, error |-> NoError,
                 session |-> [apiUrl |-> body.apiUrl,
                              authToken |-> body.authorizationToken,
                              downloadUrl |-> body.apiUrl]]

\* Mutant: the session is returned without looking for apiUrl and the token.
authorizeAccountUnchecked(outcome) ==
  IF outcome.rejected
  THEN [ok |-> FALSE, error |-> Err("Authorization request failed", "transport"),
        session |-> NoSession]
  ELSE LET parsed == parseResponse(outcome.result)
           body == parsed.body
       IN  IF parsed.statusCode # {200}
           THEN [ok |-> FALSE, error |-> Err("Authorization failed", ErrorMsgOf(body)),
                 session |-> NoSession]
           ELSE IF ~body.truthy \/ body.t # "object"
           THEN [ok |-> FALSE,
                 error |-> Err("Authorization response is empty or invalid", ""),
                 session |-> NoSession]
           ELSE [ok |-> TRUE, error |-> NoError,
                 session |-> [apiUrl |-> body.apiUrl,
                              authToken |-> body.authorizationToken,
                              downloadUrl |-> OrElse(body.downloadUrl, body.apiUrl)]]

\* authorizeAccount, from the transport's outcome on.
authorizeAccount(outcome) ==
  IF outcome.rejected
  THEN [ok |-> FALSE, error |-> Err("Authorization request failed", "transport"),
        session |-> NoSession]
  ELSE LET parsed == parseResponse(outcome.result)
           body == parsed.body
       IN  IF parsed.statusCode # {200}
           THEN [ok |-> FALSE, error |-> Err("Authorization failed", ErrorMsgOf(body)),
                 session |-> NoSession]
           ELSE IF ~body.truthy \/ body.t # "object"
           THEN [ok |-> FALSE,
                 error |-> Err("Authorization response is empty or invalid", ""),
                 session |-> NoSession]
           ELSE IF Falsy(body.apiUrl) \/ Falsy(body.authorizationToken)
           THEN [ok |-> FALSE,
                 error |-> Err("Authorization response missing apiUrl or authorizationToken", ""),
                 session |-> NoSession]
           ELSE [ok |-> TRUE, error |-> NoError,
                 session |-> [apiUrl |-> body.apiUrl,
                              authToken |-> body.authorizationToken,
                              downloadUrl |-> OrElse(body.downloadUrl, body.apiUrl)]]

\* getUploadUrl, from the transport's outcome on.  Reading a property of an
\* undefined or null body throws a TypeError.
getUploadUrl(outcome) ==
  IF outcome.rejected
  THEN [ok |-> FALSE, error |-> Err("Get upload URL failed", "transport"),
        uploadInfo |-> NoUploadInfo]
  ELSE LET parsed == parseResponse(outcome.result)
           body == parsed.body
       IN  IF parsed.statusCode # {200}
           THEN [ok |-> FALSE, error |-> Err("Failed to get upload URL", ErrorMsgOf(body)),
                 uploadInfo |-> NoUploadInfo]
           ELSE IF body.t \in {"undefined", "null"}
           THEN [ok |-> FALSE, error |-> Err("TypeError", ""), uploadInfo |-> NoUploadInfo]
           ELSE [ok |-> TRUE, error |-> NoError,
                 uploadInfo |-> [uploadUrl |-> IF body.t = "object" THEN body.uploadUrl
                                               ELSE Undefined,
                                 uploadAuthToken |-> IF body.t = "object"
                                                     THEN body.authorizationToken
                                                     ELSE Undefined]]

\* uploadFile, from the transport's outcome on.
uploadFile(outcome) ==
  IF outcome.rejected
  THEN [ok |-> FALSE, error |-> Err("Upload failed", "transport")]
  ELSE LET parsed == parseResponse(outcome.result)
       IN  IF parsed.statusCode # {200}
           THEN [ok |-> FALSE, error |-> Err("Upload failed", ErrorMsgOf(parsed.body))]
           ELSE [ok |-> TRUE, error |-> NoError]

\* Mutant: the catch block rethrows without notifying.
ThrowUnnotified(r, step, error) ==
  [r EXCEPT !.pc = "failed", !.error = error, !.failedIn = step,
            !.log = Append(@, Log("error", "[B2] Upload error", <<<<error.msg, error.detail>>>>))]

\* handle's catch block: log, notify, rethrow.
Throw(r, step, error) ==
  [r EXCEPT !.pc = "failed", !.error = error, !.failedIn = step,
            !.log = Append(@, Log("error", "[B2] Upload error", <<<<error.msg, error.detail>>>>)),
            !.notifications = Append(@, Notification(error.msg))]

\* Mutant: an empty buffer counts as no buffer.
NextWithBufferNonEmpty(output, i) ==
  LET rest == {j \in i..Len(output) : output[j].buffer.some /\ output[j].buffer.bytes # <<>>}
  IN  IF rest = {} THEN Len(output) + 1 ELSE CHOOSE j \in rest : \A k \in rest : j <= k

\* Mutant: the last item with a buffer is taken first.
NextWithBufferLast(output, i) ==
  LET rest == {j \in i..Len(output) : output[j].buffer.some}
  IN  IF rest = {} THEN Len(output) + 1 ELSE CHOOSE j \in rest : \A k \in rest : k <= j

\* The first item at or after position i that has a buffer; Len + 1 when
\* there is none (items without a buffer are logged and skipped).
NextWithBuffer(output, i) ==
  LET rest == {j \in i..Len(output) : output[j].buffer.some}
  IN  IF rest = {} THEN Len(output) + 1 ELSE CHOOSE j \in rest : \A k \in rest : j <= k

\* handle's loop from position i up to the next await (the upload of the
\* next item that has a buffer) or to the return.
UploadLoop(r, cfg, i, timestamp, randomStr) ==
  LET j == NextWithBuffer(r.output, i)
      passed == [k \in 1..(j - i) |->
                   Log("error", "[B2] No buffer found for file", <<r.output[i + k - 1].fileName>>)]
  IN  IF j > Len(r.output)
      THEN [r EXCEPT !.pc = "done", !.i = j, !.log = @ \o passed]
      ELSE LET item == r.output[j]
               key == UploadFileName(item.fileName, cfg.pathPrefix, timestamp, randomStr)
           IN  [r EXCEPT !.pc = "b2_upload_file", !.i = j, !.uploadFileName = key,
                         !.log = @ \o passed
                                   \o << Log("info", "[B2] Preparing to upload", <<key>>),
                                         Log("info", "[B2] Uploading",
                                             <<key, Decimal(Len(item.buffer.bytes))>>) >>,
                         !.reqs = Append(@, UploadFileRequest(r.uploadInfo.uploadUrl,
                                                r.uploadInfo.uploadAuthToken,
                                                item.buffer.bytes, key,
                                                contentTypeOf(item.extname), j))]

\* Mutant: the key id is put into the log before the authorize request.
handleEntryLogsKeyId(cfg, output) ==
  LET r == [IdleOp EXCEPT !.kind = "upload", !.output = output]
  IN  IF ~cfg.present
      THEN [r EXCEPT !.pc = "failed", !.failedIn = "config",
                     !.error = Err("B2 configuration not found", ""),
                     !.notifications = <<Notification("Missing B2 configuration")>>]
      ELSE IF MissingRequired(cfg)
      THEN [r EXCEPT !.pc = "failed", !.failedIn = "config",
                     !.error = Err("Missing required B2 configuration", ""),
                     !.notifications = <<Notification("Missing required configuration")>>]
      ELSE [r EXCEPT !.pc = "b2_authorize_account",
                     !.log = << Log("info", "[B2] Authorizing...", <<>>),
                                Log("info", "[B2] Key ID", <<<<cfg.applicationKeyId>>>>) >>,
                     !.reqs = <<AuthorizeRequest(cfg.applicationKeyId, cfg.applicationKey)>>]

\* handle up to its first await: the configuration checks, then the
\* authorize request.
handleEntry(cfg, output) ==
  LET r == [IdleOp EXCEPT !.kind = "upload", !.output = output]
  IN  IF ~cfg.present
      THEN [r EXCEPT !.pc = "failed", !.failedIn = "config",
                     !.error = Err("B2 configuration not found", ""),
                     !.notifications = <<Notification("Missing B2 configuration")>>]
      ELSE IF MissingRequired(cfg)
      THEN [r EXCEPT !.pc = "failed", !.failedIn = "config",
                     !.error = Err("Missing required B2 configuration", ""),
                     !.notifications = <<Notification("Missing required configuration")>>]
      ELSE [r EXCEPT !.pc = "b2_authorize_account",
                     !.log = <<Log("info", "[B2] Authorizing...", <<>>)>>,
                     !.reqs = <<AuthorizeRequest(cfg.applicationKeyId, cfg.applicationKey)>>]

\* handle from the authorize response to the get-upload-url request.
handleAuthorized(r, cfg, outcome) ==
  LET a == authorizeAccount(outcome)
      got == [r EXCEPT !.resps = Append(@, outcome)]
  IN  IF a.ok
      THEN [got EXCEPT !.auth = a.session, !.pc = "b2_get_upload_url",
                       !.reqs = Append(@, GetUploadUrlRequest(a.session.apiUrl,
                                              a.session.authToken, cfg.bucketId))]
      ELSE Throw(got, "b2_authorize_account", a.error)

\* Mutant: the loop is entered whatever getUploadUrl made of the response.
handleLeasedUnchecked(r, cfg, outcome, timestamp, randomStr) ==
  UploadLoop([r EXCEPT !.resps = Append(@, outcome),
                       !.uploadInfo = getUploadUrl(outcome).uploadInfo],
             cfg, 1, timestamp, randomStr)

\* handle from the get-upload-url response into the loop.
handleLeased(r, cfg, outcome, timestamp, randomStr) ==
  LET u == getUploadUrl(outcome)
      got == [r EXCEPT !.resps = Append(@, outcome)]
  IN  IF u.ok
      THEN UploadLoop([got EXCEPT !.uploadInfo = u.uploadInfo], cfg, 1, timestamp, randomStr)
      ELSE Throw(got, "b2_get_upload_url", u.error)

\* Mutant: the item gets its URL before the upload's response is looked at.
handleUploadedUrlFirst(r, cfg, outcome, timestamp, randomStr) ==
  LET u == uploadFile(outcome)
      fileUrl == buildFileUrl(r.auth.downloadUrl, cfg.bucketName, r.uploadFileName,
                              cfg.customDomain)
      got == [r EXCEPT !.resps = Append(@, outcome),
                       !.output[r.i].imgUrl = fileUrl, !.output[r.i].url = fileUrl]
  IN  IF u.ok
      THEN UploadLoop([got EXCEPT !.log = Append(@, Log("info", "[B2] Successfully uploaded",
                                                        <<fileUrl>>))],
                      cfg, r.i + 1, timestamp, randomStr)
      ELSE Throw(got, "b2_upload_file", u.error)

\* Mutant: a failed upload is logged and the loop goes on with the next item.
handleUploadedSkipFailed(r, cfg, outcome, timestamp, randomStr) ==
  LET u == uploadFile(outcome)
      got == [r EXCEPT !.resps = Append(@, outcome)]
      fileUrl == buildFileUrl(r.auth.downloadUrl, cfg.bucketName, r.uploadFileName,
                              cfg.customDomain)
  IN  IF u.ok
      THEN UploadLoop([got EXCEPT !.output[r.i].imgUrl = fileUrl,
                                  !.output[r.i].url = fileUrl,
                                  !.log = Append(@, Log("info", "[B2] Successfully uploaded",
                                                        <<fileUrl>>))],
                      cfg, r.i + 1, timestamp, randomStr)
      ELSE UploadLoop(got, cfg, r.i + 1, timestamp, randomStr)

\* handle from an upload response on: the item's URL, then the loop again.
handleUploaded(r, cfg, outcome, timestamp, randomStr) ==
  LET u == uploadFile(outcome)
      got == [r EXCEPT !.resps = Append(@, outcome)]
      fileUrl == buildFileUrl(r.auth.downloadUrl, cfg.bucketName, r.uploadFileName,
                              cfg.customDomain)
  IN  IF u.ok
      THEN UploadLoop([got EXCEPT !.output[r.i].imgUrl = fileUrl,
                                  !.output[r.i].url = fileUrl,
                                  !.log = Append(@, Log("info", "[B2] Successfully uploaded",
                                                        <<fileUrl>>))],
                      cfg, r.i + 1, timestamp, randomStr)
      ELSE Throw(got, "b2_upload_file", u.error)

\* ------------------------------------------------------------ delete flow

\* Mutant: makeRequest sends whatever URL and header it is given.
makeRequestSendsAnything(url, authorization) == TRUE

\* makeRequest reaches the network unless building the request throws:
\* new URL(...) throws on a URL without an origin, and the HTTP client
\* refuses a header whose value is undefined.  Either way the promise
\* rejects and nothing is sent.
makeRequestSends(url, authorization) == ~Falsy(url) /\ authorization # Undefined

\* Mutant: a file matches when its name starts with the name asked for.
MatchesPrefix(files, fileName) ==
  {k \in 1..Len(files) : /\ Len(fileName) <= Len(files[k].fileName)
                         /\ SubSeq(files[k].fileName, 1, Len(fileName)) = fileName}

\* files.find(f => f.fileName === fileName): the matching positions.
Matches(files, fileName) == {k \in 1..Len(files) : files[k].fileName = fileName}

\* deleteB2File up to its first await: the name check, then authorizeB2's
\* request.  Destructuring an undefined config throws a TypeError.
deleteB2FileEntry(fileName, cfg) ==
  LET r == [IdleOp EXCEPT !.kind = "delete", !.target = fileName]
      s == [r EXCEPT !.log = <<Log("info", "[B2 GUI] about to delete file", <<fileName>>)>>]
  IN  IF FalsyText(fileName)
      THEN [r EXCEPT !.pc = "failed", !.failedIn = "entry",
                     !.error = Err("file name is empty", "")]
      ELSE IF ~cfg.present
      THEN [s EXCEPT !.pc = "failed", !.failedIn = "entry", !.error = Err("TypeError", "")]
      ELSE [s EXCEPT !.pc = "b2_authorize_account",
                     !.reqs = <<AuthorizeRequest(cfg.applicationKeyId, cfg.applicationKey)>>]

\* deleteB2File lets every error propagate to its caller.
Reject(r, step, error) == [r EXCEPT !.pc = "failed", !.error = error, !.failedIn = step]

\* authorizeB2, from the transport's outcome on.
authorizeB2(outcome) ==
  IF outcome.rejected
  THEN [ok |-> FALSE, error |-> Err("transport", ""), session |-> NoSession]
  ELSE LET result == outcome.result
           body == result.body
       IN  IF result.self.statusCode # {200}
           THEN [ok |-> FALSE,
                 error |-> IF body.t = "null" THEN Err("TypeError", "")
                           ELSE Err("authorization failed",
                                    IF body.t = "object" THEN OrElse(body.message, "unknown")
                                    ELSE "unknown"),
                 session |-> NoSession]
           ELSE IF body.t = "null"
           THEN [ok |-> FALSE, error |-> Err("TypeError", ""), session |-> NoSession]
           ELSE [ok |-> TRUE, error |-> NoError,
                 session |-> IF body.t = "object"
                             THEN [apiUrl |-> body.apiUrl,
                                   authToken |-> body.authorizationToken,
                                   downloadUrl |-> body.downloadUrl]
                             ELSE NoSession]

\* deleteB2File from the authorize response to the list request.
deleteAuthorized(r, cfg, outcome) ==
  LET a == authorizeB2(outcome)
      got == [r EXCEPT !.resps = Append(@, outcome)]
  IN  IF ~a.ok
      THEN Reject(got, "b2_authorize_account", a.error)
      ELSE IF ~makeRequestSends(a.session.apiUrl, a.session.authToken)
      THEN Reject([got EXCEPT !.auth = a.session,
                              !.log = Append(@, Log("info", "[B2 GUI] authorized", <<>>))],
                  "b2_list_file_names", Err("TypeError", ""))
      ELSE [got EXCEPT !.auth = a.session, !.pc = "b2_list_file_names",
                       !.log = Append(@, Log("info", "[B2 GUI] authorized", <<>>)),
                       !.reqs = Append(@, ListFileNamesRequest(a.session.apiUrl,
                                              a.session.authToken, cfg.bucketId, r.target))]

\* Mutant: the status of the list response is not looked at.
deleteListedAnyStatus(r, outcome) ==
  LET got == [r EXCEPT !.resps = Append(@, outcome)]
      body == outcome.result.body
      files == IF body.t = "object" THEN body.files ELSE <<>>
      hits == Matches(files, r.target)
      targetFile == files[CHOOSE k \in hits : \A m \in hits : k <= m]
  IN  IF outcome.rejected
      THEN Reject(got, "b2_list_file_names", Err("transport", ""))
      ELSE IF body.t = "null"
      THEN Reject(got, "b2_list_file_names", Err("TypeError", ""))
      ELSE IF hits = {}
      THEN [got EXCEPT !.pc = "done",
                       !.log = Append(@, Log("warn", "[B2 GUI] file absent or already deleted",
                                             <<r.target>>)),
                       !.result = [success |-> TRUE, message |-> "absent or already deleted"]]
      ELSE [got EXCEPT !.pc = "b2_delete_file_version",
                       !.reqs = Append(@, DeleteFileVersionRequest(r.auth.apiUrl,
                                              r.auth.authToken, targetFile.fileId,
                                              targetFile.fileName))]

\* Mutant: the first file listed is taken, whatever its name.
deleteListedFirstFile(r, outcome) ==
  LET got == [r EXCEPT !.resps = Append(@, outcome)]
      result == outcome.result
      body == result.body
      files == IF body.t = "object" THEN body.files ELSE <<>>
  IN  IF outcome.rejected
      THEN Reject(got, "b2_list_file_names", Err("transport", ""))
      ELSE IF result.self.statusCode # {200}
      THEN Reject(got, "b2_list_file_names",
                  IF body.t = "null" THEN Err("TypeError", "")
                  ELSE Err("list failed", IF body.t = "object" THEN body.message
                                          ELSE Undefined))
      ELSE IF body.t = "null"
      THEN Reject(got, "b2_list_file_names", Err("TypeError", ""))
      ELSE IF files = <<>>
      THEN [got EXCEPT !.pc = "done",
                       !.log = Append(@, Log("warn", "[B2 GUI] file absent or already deleted",
                                             <<r.target>>)),
                       !.result = [success |-> TRUE, message |-> "absent or already deleted"]]
      ELSE [got EXCEPT !.pc = "b2_delete_file_version",
                       !.reqs = Append(@, DeleteFileVersionRequest(r.auth.apiUrl,
                                              r.auth.authToken, files[1].fileId,
                                              files[1].fileName))]

\* deleteB2File from the list response on: fail, report the file absent,
\* or send the delete request for the file found.
deleteListed(r, outcome) ==
  LET got == [r EXCEPT !.resps = Append(@, outcome)]
      result == outcome.result
      body == result.body
      files == IF body.t = "object" THEN body.files ELSE <<>>
      hits == Matches(files, r.target)
      targetFile == files[CHOOSE k \in hits : \A m \in hits : k <= m]
  IN  IF outcome.rejected
      THEN Reject(got, "b2_list_file_names", Err("transport", ""))
      ELSE IF result.self.statusCode # {200}
      THEN Reject(got, "b2_list_file_names",
                  IF body.t = "null" THEN Err("TypeError", "")
                  ELSE Err("list failed", IF body.t = "object" THEN body.message
                                          ELSE Undefined))
      ELSE IF body.t = "null"
      THEN Reject(got, "b2_list_file_names", Err("TypeError", ""))
      ELSE IF hits = {}
      THEN [got EXCEPT !.pc = "done",
                       !.log = Append(@, Log("warn", "[B2 GUI] file absent or already deleted",
                                             <<r.target>>)),
                       !.result = [success |-> TRUE, message |-> "absent or already deleted"]]
      ELSE [got EXCEPT !.pc = "b2_delete_file_version",
                       !.reqs = Append(@, DeleteFileVersionRequest(r.auth.apiUrl,
                                              r.auth.authToken, targetFile.fileId,
                                              targetFile.fileName))]

\* deleteB2File from the delete response on.
deleteAnswered(r, outcome) ==
  LET got == [r EXCEPT !.resps = Append(@, outcome)]
      body == outcome.result.body
  IN  IF outcome.rejected
      THEN Reject(got, "b2_delete_file_version", Err("transport", ""))
      ELSE IF outcome.result.self.statusCode # {200}
      THEN Reject(got, "b2_delete_file_version",
                  IF body.t = "null" THEN Err("TypeError", "")
                  ELSE Err("delete failed", IF body.t = "object" THEN body.message
                                            ELSE Undefined))
      ELSE [got EXCEPT !.pc = "done",
                       !.log = Append(@, Log("info", "[B2 GUI] deleted", <<r.target>>)),
                       !.result = [success |-> TRUE, message |-> "deleted"]]

\* ------------------------------------------------------- the remote side

\* The B2 service as the code's requests and its end-to-end test use it.
\* The bucket is a set of file versions [fileId, fileName]; fileId 0 stands
\* for an undefined id.

AuthBody ==
  [Obj EXCEPT !.apiUrl = "https://api001", !.downloadUrl = "https://f001",
              !.authorizationToken = "session1"]

LeaseBody ==
  [Obj EXCEPT !.uploadUrl = "https://pod1/b2_upload_file", !.authorizationToken = "lease1"]

ErrorBody(message) == [Obj EXCEPT !.message = message]

\* JSON.stringify(p) of an object p, as a transport that does not parse hands it over.
Stringified(p) == [p EXCEPT !.t = "string", !.truthy = TRUE, !.json = TRUE]

\* decodeURIComponent, applied by the service to the X-Bz-File-Name header.
DecodeEscape(a, b) ==
  CASE a = "2" /\ b = "F" -> "/"
    [] a = "2" /\ b = "0" -> " "
    [] a = "2" /\ b = "5" -> "%"
    [] a = "3" /\ b = "A" -> ":"
    [] OTHER -> "?"

RECURSIVE decodeURIComponent(_)
decodeURIComponent(s) ==
  IF s = <<>> THEN <<>>
  ELSE IF Head(s) = "%" /\ Len(s) >= 3
  THEN <<DecodeEscape(s[2], s[3])>> \o decodeURIComponent(SubSeq(s, 4, Len(s)))
  ELSE <<Head(s)>> \o decodeURIComponent(Tail(s))

\* The characters of the model in ASCII order.
AsciiOrder ==
  <<" ", "%", ".", "/", "0", "1", "2", "3", "4", "5", "6", "7", "8", "9", ":",
    "A", "B", "F", "G", "J", "N", "P", "_",
    "a", "b", "g", "i", "k", "n", "p", "x", "z">>

Ascii(c) == CHOOSE k \in 1..Len(AsciiOrder) : AsciiOrder[k] = c

\* s sorts before t, byte by byte.
RECURSIVE Before(_, _)
Before(s, t) ==
  IF t = <<>> THEN FALSE
  ELSE IF s = <<>> THEN TRUE
  ELSE IF Head(s) # Head(t) THEN Ascii(Head(s)) < Ascii(Head(t))
  ELSE Before(Tail(s), Tail(t))

StartsWith(s, prefix) == Len(prefix) <= Len(s) /\ SubSeq(s, 1, Len(prefix)) = prefix

\* b2_list_file_names shows the newest version of each name.
Newest(files) ==
  {f \in files : \A g \in files : g.fileName = f.fileName => g.fileId <= f.fileId}

\* The first count files, by name, among those whose name starts with prefix.
RECURSIVE FirstByName(_, _)
FirstByName(files, count) ==
  IF count = 0 \/ files = {} THEN <<>>
  ELSE LET first == CHOOSE f \in files :
                      \A g \in files : g = f \/ Before(f.fileName, g.fileName)
       IN  <<first>> \o FirstByName(files \ {first}, count - 1)

ListFileNames(files, prefix, count) ==
  FirstByName({f \in Newest(files) : StartsWith(f.fileName, prefix)}, count)

ValidCredentials(req) == req.keyId = "keyId1" /\ req.key = "appKey1"

\* What the service answers to a request, and the bucket it leaves: the
\* answer as the code's own HTTP client (makeRequest) delivers it.
Service(req, files, id) ==
  CASE req.op = "b2_authorize_account" ->
         [answer |-> IF ValidCredentials(req) THEN Wrapped(200, AuthBody)
                     ELSE Wrapped(401, ErrorBody("bad_auth_token")),
          files |-> files, id |-> id]
    [] req.op = "b2_get_upload_url" ->
         [answer |-> IF req.authorization = "session1" /\ req.bucketId = "bucket1"
                     THEN Wrapped(200, LeaseBody)
                     ELSE Wrapped(400, ErrorBody("bad_request")),
          files |-> files, id |-> id]
    [] req.op = "b2_upload_file" ->
         IF /\ req.authorization = "lease1"
            /\ req.contentSha1 = sha1(req.body)
            /\ req.contentLength = Len(req.body)
         THEN [answer |-> Wrapped(200, Obj),
               files |-> files \cup {[fileId |-> id,
                                      fileName |-> decodeURIComponent(req.fileName)]},
               id |-> id + 1]
         ELSE [answer |-> Wrapped(400, ErrorBody("bad_request")), files |-> files, id |-> id]
    [] req.op = "b2_list_file_names" ->
         [answer |-> IF req.authorization = "session1" /\ req.bucketId = "bucket1"
                     THEN Wrapped(200, [Obj EXCEPT !.files =
                                          ListFileNames(files, req.prefix, req.maxFileCount)])
                     ELSE Wrapped(400, ErrorBody("bad_request")),
          files |-> files, id |-> id]
    [] req.op = "b2_delete_file_version" ->
         LET version == [fileId |-> req.fileId, fileName |-> req.fileName]
         IN  IF req.authorization = "session1" /\ version \in files
             THEN [answer |-> Wrapped(200, Obj), files |-> files \ {version}, id |-> id]
             ELSE [answer |-> Wrapped(400, ErrorBody("file_not_present")),
                   files |-> files, id |-> id]

\* The host's transport (ctx.request) hands a success over as the decoded
\* body itself and a failure as an object carrying the status.
ViaHost(answer) ==
  IF answer.self.statusCode = {200} THEN Direct(answer.body) ELSE answer

\* ------------------------------------------------- what a request can meet

\* The service's answer reached the caller, in one of the shapes a
\* transport delivers it in.
Delivered(outcome, answer) ==
  /\ ~outcome.rejected
  /\ \/ outcome.result = answer
     \/ outcome.result = ViaHost(answer)
     \/ /\ answer.self.statusCode = {200}
        /\ outcome.result = Axios(200, Stringified(answer.body))

\* Outcomes of ctx.request in the upload flow: a transport failure, the
\* service's answer, or a faulty answer.
HostAuthorizeOutcomes(answer) ==
  { Rejected,
    Resolved(ViaHost(answer)),
    Resolved(Direct([AuthBody EXCEPT !.downloadUrl = Undefined])),
    Resolved(Direct([AuthBody EXCEPT !.authorizationToken = Undefined])),
    Resolved(Wrapped(401, ErrorBody("bad_auth_token"))),
    Resolved(Direct(Text)) }

HostGetUploadUrlOutcomes(answer) ==
  { Rejected,
    Resolved(IF answer.self.statusCode = {200} THEN Axios(200, Stringified(answer.body))
             ELSE answer),
    Resolved(Wrapped(400, ErrorBody("bad_bucket_id"))),
    Resolved(Direct(Obj)),
    Resolved(Wrapped(200, Null)) }

\* A request to an undefined URL never leaves the transport.
HostUploadOutcomes(req, answer) ==
  IF Falsy(req.url) THEN {Rejected}
  ELSE { Rejected,
         Resolved(ViaHost(answer)),
         Resolved(Wrapped(503, Text)) }

\* Outcomes of makeRequest in the delete flow: it resolves with the status
\* and the body (parsed when it is JSON), or rejects.
NodeAuthorizeOutcomes(answer) ==
  { Rejected,
    Resolved(answer),
    Resolved(Wrapped(401, ErrorBody("bad_auth_token"))),
    Resolved(Wrapped(200, Obj)),
    Resolved(Wrapped(200, [AuthBody EXCEPT !.authorizationToken = Undefined])),
    Resolved(Wrapped(200, [AuthBody EXCEPT !.apiUrl = Undefined])),
    Resolved(Wrapped(503, Text)),
    Resolved(Wrapped(200, Null)) }

\* The file lists a list response can carry: versions of the bucket, a
\* longer name that starts with the requested one, and a version of the
\* requested name that the bucket does not hold.
Listings(files, fileName) ==
  SeqsUpTo(files \cup { [fileId |-> 90, fileName |-> fileName \o <<"x">>],
                        [fileId |-> 91, fileName |-> fileName] },
           MaxListing)

NodeListOutcomes(answer, files, fileName) ==
  { Rejected,
    Resolved(answer),
    Resolved(Wrapped(400, ErrorBody("bad_request"))),
    Resolved(Wrapped(500, Null)),
    Resolved(Wrapped(200, Text)) }
  \cup { Resolved(Wrapped(200, [Obj EXCEPT !.files = l])) : l \in Listings(files, fileName) }

NodeDeleteOutcomes(answer) ==
  { Rejected,
    Resolved(answer),
    Resolved(Wrapped(400, ErrorBody("file_not_present"))),
    Resolved(Wrapped(500, Text)) }

\* ---------------------------------------------------------- state machine

VARIABLES
  config,   \* the host's picBed.b2 configuration
  bucket,   \* the file versions the service holds
  nextId,   \* the id the service gives the next version
  clock,    \* Date.now()
  ops,      \* the state of each operation slot
  listener, \* the state of the 'remove' event handler
  plugin,   \* the plugin as the host has loaded it
  menu,     \* the state of the 'delete cloud file' menu handler
  applied   \* the applications of a function under study, with their results

vars == <<config, bucket, nextId, clock, ops, listener, plugin, menu, applied>>

Slots == {1}

Pending(o) == ops[o].reqs[Len(ops[o].reqs)]

Answer(o) == Service(Pending(o), bucket, nextId)

\* The operation in slot o goes on to state r after meeting outcome; the
\* service's effect takes place when its answer is what was delivered.
Receive(o, outcome, r) ==
  LET a == Answer(o)
      delivered == Delivered(outcome, a.answer)
  IN  /\ ops' = [ops EXCEPT ![o] =
                   [r EXCEPT !.allOk = ops[o].allOk /\ delivered
                                         /\ a.answer.self.statusCode = {200}]]
      /\ bucket' = IF delivered THEN a.files ELSE bucket
      /\ nextId' = IF delivered THEN a.id ELSE nextId

\* The 'remove' handler: where it stands, the files of the event, the
\* position of its loop, the positions it skipped, the deleteB2File calls
\* it awaited, each as the call ended, and what the handler itself logged.
IdleListener ==
  [pc |-> "idle", files |-> <<>>, i |-> 0, skipped |-> {}, calls |-> <<>>, log |-> <<>>]

\* The handler of the menu's delete item: where it stands, how it was
\* invoked, the name entered, the button chosen ({} when none was), what it
\* showed the user, and whether an error left it.
IdleMenu ==
  [pc |-> "idle", via |-> "", fileName |-> <<>>, button |-> {}, shown |-> <<>>,
   thrown |-> FALSE]

\* The plugin before the host has loaded index.js: the module loaded, the
\* properties of the object module.exports(ctx) returned, the uploaders and
\* the event listeners the host holds, what was logged, and whether an
\* error left register.
Unloaded ==
  [pc |-> "unloaded", guiModule |-> [present |-> FALSE, exports |-> {}], result |-> {},
   uploaders |-> {}, listeners |-> {}, log |-> <<>>, thrown |-> FALSE]

\* ------------------------------------------------------- an upload batch

Init ==
  /\ config \in Configs
  /\ bucket = {}
  /\ nextId = 1
  /\ clock = 1
  /\ ops = [o \in Slots |-> IdleOp]
  /\ listener = IdleListener
  /\ plugin = Unloaded
  /\ menu = IdleMenu
  /\ applied = <<>>

\* The host calls handle(ctx) with a batch.
StartUpload(o) ==
  /\ ops[o].pc = "idle"
  /\ \E output \in Batches : ops' = [ops EXCEPT ![o] = handleEntry(config, output)]
  /\ UNCHANGED <<menu, plugin, applied, config, bucket, nextId, clock, listener>>

UploadAuthorized(o) ==
  /\ ops[o].kind = "upload"
  /\ ops[o].pc = "b2_authorize_account"
  /\ \E outcome \in HostAuthorizeOutcomes(Answer(o).answer) :
       Receive(o, outcome, handleAuthorized(ops[o], config, outcome))
  /\ UNCHANGED <<menu, plugin, applied, config, clock, listener>>

\* Date.now() is read when the next upload is prepared.
UploadLeased(o) ==
  /\ ops[o].kind = "upload"
  /\ ops[o].pc = "b2_get_upload_url"
  /\ \E outcome \in HostGetUploadUrlOutcomes(Answer(o).answer),
        timestamp \in clock..MaxClock, randomStr \in RandomStrs :
       LET r == handleLeased(ops[o], config, outcome, timestamp, randomStr)
       IN  /\ Receive(o, outcome, r)
           /\ clock' = IF r.pc = "b2_upload_file" THEN timestamp ELSE clock
  /\ UNCHANGED <<menu, plugin, applied, config, listener>>

UploadAnswered(o) ==
  /\ ops[o].kind = "upload"
  /\ ops[o].pc = "b2_upload_file"
  /\ \E outcome \in HostUploadOutcomes(Pending(o), Answer(o).answer),
        timestamp \in clock..MaxClock, randomStr \in RandomStrs :
       LET r == handleUploaded(ops[o], config, outcome, timestamp, randomStr)
       IN  /\ Receive(o, outcome, r)
           /\ clock' = IF r.pc = "b2_upload_file" THEN timestamp ELSE clock
  /\ UNCHANGED <<menu, plugin, applied, config, listener>>

Next ==
  \E o \in Slots :
    \/ StartUpload(o)
    \/ UploadAuthorized(o)
    \/ UploadLeased(o)
    \/ UploadAnswered(o)

Spec == Init /\ [][Next]_vars

\* The host calls handle; whether a request of handle ever settles is up to
\* the host's transport, to which handle passes no timeout.
LiveSpec == Spec /\ \A o \in Slots : WF_vars(StartUpload(o))

\* ----------------------------------------------------- a delete operation

\* The keys earlier uploads stored under the configuration's prefix.
StoredKeys(cfg) ==
  { UploadFileName(item.fileName, cfg.pathPrefix, 1, randomStr) :
      item \in {it \in Items : it.buffer.some}, randomStr \in RandomStrs }

\* The bucket after uploading the keys in turn, each through the upload
\* request handle sends for it.
RECURSIVE Uploaded(_, _, _)
Uploaded(keys, files, id) ==
  IF keys = <<>> THEN [files |-> files, id |-> id]
  ELSE LET after == Service(UploadFileRequest(LeaseBody.uploadUrl,
                                              LeaseBody.authorizationToken,
                                              <<65>>, Head(keys), "image/png", 0),
                            files, id)
       IN  Uploaded(Tail(keys), after.files, after.id)

InitDelete ==
  /\ config \in Configs
  /\ \E keys \in SeqsUpTo(StoredKeys(config), MaxStored) :
       /\ bucket = Uploaded(keys, {}, 1).files
       /\ nextId = Uploaded(keys, {}, 1).id
  /\ clock = 1
  /\ ops = [o \in Slots |-> IdleOp]
  /\ listener = IdleListener
  /\ plugin = Unloaded
  /\ menu = IdleMenu
  /\ applied = <<>>

\* Names a delete operation is asked for: a stored name, a stored name
\* without its last character, a name the bucket never held, no name.
DeleteTargets ==
  {f.fileName : f \in bucket} \cup {DropLast(f.fileName) : f \in bucket}
    \cup { <<"z">>, <<>> }

\* A caller (the remove listener, the menu, the end-to-end test) calls
\* deleteB2File(fileName, config, log).
StartDelete(o) ==
  /\ ops[o].pc = "idle"
  /\ \E fileName \in DeleteTargets :
       ops' = [ops EXCEPT ![o] =
                 [deleteB2FileEntry(fileName, config) EXCEPT !.before = bucket]]
  /\ UNCHANGED <<menu, plugin, applied, config, bucket, nextId, clock, listener>>

DeleteAuthorized(o) ==
  /\ ops[o].kind = "delete"
  /\ ops[o].pc = "b2_authorize_account"
  /\ \E outcome \in NodeAuthorizeOutcomes(Answer(o).answer) :
       Receive(o, outcome, deleteAuthorized(ops[o], config, outcome))
  /\ UNCHANGED <<menu, plugin, applied, config, clock, listener>>

DeleteListed(o) ==
  /\ ops[o].kind = "delete"
  /\ ops[o].pc = "b2_list_file_names"
  /\ \E outcome \in NodeListOutcomes(Answer(o).answer, bucket, ops[o].target) :
       Receive(o, outcome, deleteListed(ops[o], outcome))
  /\ UNCHANGED <<menu, plugin, applied, config, clock, listener>>

DeleteAnswered(o) ==
  /\ ops[o].kind = "delete"
  /\ ops[o].pc = "b2_delete_file_version"
  /\ \E outcome \in NodeDeleteOutcomes(Answer(o).answer) :
       Receive(o, outcome, deleteAnswered(ops[o], outcome))
  /\ UNCHANGED <<menu, plugin, applied, config, clock, listener>>

NextDelete ==
  \E o \in Slots :
    \/ StartDelete(o)
    \/ DeleteAuthorized(o)
    \/ DeleteListed(o)
    \/ DeleteAnswered(o)

DeleteSpec == InitDelete /\ [][NextDelete]_vars

\* ------------------------------------------------ extractFileNameFromUrl

\* The origins (scheme and host) the URLs of a run start with.
Origins == {AuthBody.downloadUrl, AuthBody.apiUrl, "https://cdn"}

\* new URL(fileUrl) throws unless the text starts with an origin.
ValidUrl(fileUrl) == Len(fileUrl) >= 1 /\ fileUrl[1] \in Origins

\* url.pathname: what follows the origin, '/' when nothing does; the parser
\* escapes a space and leaves an escape as it is.
RECURSIVE PathEscaped(_)
PathEscaped(s) ==
  IF s = <<>> THEN <<>>
  ELSE (IF Head(s) = " " THEN <<"%", "2", "0">> ELSE <<Head(s)>>) \o PathEscaped(Tail(s))

pathname(fileUrl) == IF Len(fileUrl) = 1 THEN <<"/">> ELSE PathEscaped(Tail(fileUrl))

\* s.split(c)
RECURSIVE Split(_, _)
Split(s, c) ==
  LET hits == {i \in 1..Len(s) : s[i] = c}
      i == CHOOSE h \in hits : \A g \in hits : h <= g
  IN  IF hits = {} THEN <<s>>
      ELSE <<SubSeq(s, 1, i - 1)>> \o Split(SubSeq(s, i + 1, Len(s)), c)

\* parts.join(c)
RECURSIVE Join(_, _)
Join(parts, c) ==
  IF parts = <<>> THEN <<>>
  ELSE IF Len(parts) = 1 THEN parts[1]
  ELSE parts[1] \o <<c>> \o Join(Tail(parts), c)

\* The null extractFileNameFromUrl returns from its catch block: falsy, as
\* undefined is.
NoFileName == <<Undefined>>

extractFileNameFromUrl(fileUrl, bucketName) ==
  IF ~ValidUrl(fileUrl) THEN NoFileName
  ELSE LET pathParts == Split(pathname(fileUrl), "/")
       IN  IF /\ Len(pathParts) >= 3
              /\ pathParts[2] = <<"f", "i", "l", "e">>
              /\ pathParts[3] = bucketName
           THEN Join(SubSeq(pathParts, 4, Len(pathParts)), "/")
           ELSE SubstringFrom(pathname(fileUrl), 1)

\* ------------------------------------------------- the 'remove' listener

\* A file of a 'remove' event: its type tag and its URL.  key records the
\* storage key the URL was built for (<<>> when it was built for none).
RemovedFile(type, imgUrl, key) == [type |-> type, imgUrl |-> imgUrl, key |-> key]

\* Mutant: the type of the file is not looked at.
SkipsWhateverType(cfg, file) ==
  FalsyText(extractFileNameFromUrl(file.imgUrl, cfg.bucketName))

\* The loop passes over a file of another type and over one whose URL
\* yields no file name.
Skips(cfg, file) ==
  \/ file.type # "b2"
  \/ FalsyText(extractFileNameFromUrl(file.imgUrl, cfg.bucketName))

\* The first position at or after i the loop does not pass over.
NextToDelete(files, cfg, i) ==
  LET rest == {j \in i..Len(files) : ~Skips(cfg, files[j])}
  IN  IF rest = {} THEN Len(files) + 1 ELSE CHOOSE j \in rest : \A k \in rest : j <= k

\* The handler's loop from position i up to the next await or to its end:
\* the listener's state and the deleteB2File call it awaits.  held is the
\* bucket at this moment.  A call that throws before its first await is
\* caught like any other.
RECURSIVE ListenerLoop(_, _, _, _)
ListenerLoop(l, cfg, i, held) ==
  LET j == NextToDelete(l.files, cfg, i)
      \* the line for a file passed over; the file's own name is not modelled
      line(file) == IF file.type # "b2" THEN Log("info", "[B2 GUI] skipping a file not of B2", <<>>)
                    ELSE Log("warn", "[B2 GUI] no file name in URL", <<file.imgUrl>>)
      passed == [l EXCEPT !.skipped = @ \cup (i..(j - 1)),
                          !.log = @ \o [k \in 1..(j - i) |-> line(l.files[i + k - 1])]]
  IN  IF j > Len(l.files)
      THEN [listener |-> [passed EXCEPT !.pc = "done", !.i = j], op |-> IdleOp]
      ELSE LET fileName == extractFileNameFromUrl(l.files[j].imgUrl, cfg.bucketName)
               call == [deleteB2FileEntry(fileName, cfg) EXCEPT !.before = held]
               calling == [passed EXCEPT !.log = Append(@, Log("info", "[B2 GUI] deleting remote file",
                                                               <<fileName>>))]
           IN  IF call.pc = "failed"
               THEN ListenerLoop([calling EXCEPT
                                    !.calls = Append(@, [item |-> j, op |-> call]),
                                    !.log = Append(@, Log("error", "[B2 GUI] remote delete failed",
                                                          <<<<call.error.msg,
                                                              call.error.detail>>>>))],
                                 cfg, j + 1, held)
               ELSE [listener |-> [calling EXCEPT !.pc = "awaiting", !.i = j], op |-> call]

\* The handler from the event to its first await.
removeHandlerEntry(cfg, files, held) ==
  IF ~cfg.present
  THEN [listener |-> [IdleListener EXCEPT
                        !.pc = "done", !.files = files,
                        !.log = <<Log("warn", "[B2 GUI] B2 not configured, skipping", <<>>)>>],
        op |-> IdleOp]
  ELSE ListenerLoop([IdleListener EXCEPT
                       !.files = files,
                       !.log = <<Log("info", "[B2 GUI] files removed, deleting remotely",
                                     <<Decimal(Len(files))>>)>>],
                    cfg, 1, held)

\* Mutant: an error of the awaited call leaves the handler.
removeHandlerResumeUncaught(l, cfg, r, held) ==
  IF r.pc = "failed"
  THEN [listener |-> [l EXCEPT !.pc = "failed", !.calls = Append(@, [item |-> l.i, op |-> r])],
        op |-> IdleOp]
  ELSE ListenerLoop([l EXCEPT !.calls = Append(@, [item |-> l.i, op |-> r]),
                              !.log = Append(@, Log("info", "[B2 GUI] remote file deleted",
                                                    <<r.target>>))],
                    cfg, l.i + 1, held)

\* The handler after the awaited call r ended, by returning or by throwing
\* into the catch block.
removeHandlerResume(l, cfg, r, held) ==
  ListenerLoop([l EXCEPT !.calls = Append(@, [item |-> l.i, op |-> r]),
                         !.log = Append(@, IF r.pc = "failed"
                                           THEN Log("error", "[B2 GUI] remote delete failed",
                                                    <<<<r.error.msg, r.error.detail>>>>)
                                           ELSE Log("info", "[B2 GUI] remote file deleted",
                                                    <<r.target>>))],
               cfg, l.i + 1, held)

\* ------------------------------------------------------ a 'remove' event

\* The configurations of a run of the listener: absent, without its
\* application key, complete, and complete with a path prefix, without and
\* with a custom domain.
RemoveConfigs ==
  { NoConfig, GoodConfig,
    [GoodConfig EXCEPT !.applicationKey = Undefined],
    [GoodConfig EXCEPT !.pathPrefix = <<"p">>],
    [GoodConfig EXCEPT !.customDomain = <<"https://cdn">>, !.pathPrefix = <<"p", "/">>] }

\* The keys of the two objects uploaded before the event.
RemoveKeys(cfg) ==
  << UploadFileName(<<"a", ".", "p", "n", "g">>, cfg.pathPrefix, 1, <<"i">>),
     UploadFileName(<<"n">>, cfg.pathPrefix, 1, <<"i">>) >>

InitRemove ==
  /\ config \in RemoveConfigs
  /\ bucket = Uploaded(RemoveKeys(config), {}, 1).files
  /\ nextId = Uploaded(RemoveKeys(config), {}, 1).id
  /\ clock = 1
  /\ ops = [o \in Slots |-> IdleOp]
  /\ listener = IdleListener
  /\ plugin = Unloaded
  /\ menu = IdleMenu
  /\ applied = <<>>

\* The files an event can name: the uploaded objects under the URL handle
\* gave them, a file of another uploader, a file without a URL, and a URL
\* that holds no path.
RemovedFiles(cfg) ==
  { RemovedFile("b2", buildFileUrl(AuthBody.downloadUrl, cfg.bucketName, RemoveKeys(cfg)[n],
                                   cfg.customDomain), RemoveKeys(cfg)[n]) : n \in 1..2 }
    \cup { RemovedFile("github", <<"https://cdn", "/", "n">>, <<>>),
           RemovedFile("b2", <<Undefined>>, <<>>),
           RemovedFile("b2", <<"https://cdn">>, <<>>) }

\* The host emits 'remove' with a list of files.
EmitRemove(o) ==
  /\ listener.pc = "idle"
  /\ ops[o].pc = "idle"
  /\ \E files \in SeqsUpTo(RemovedFiles(config), MaxRemoved) :
       LET e == removeHandlerEntry(config, files, bucket)
       IN  /\ listener' = e.listener
           /\ ops' = [ops EXCEPT ![o] = e.op]
  /\ UNCHANGED <<menu, plugin, applied, config, bucket, nextId, clock>>

\* What a request of the listener's calls can meet: a transport failure, the
\* service's answer, an error answer, an answer without a body.
ListenerOutcomes(answer) ==
  { Rejected, Resolved(answer),
    Resolved(Wrapped(503, ErrorBody("service_unavailable"))),
    Resolved(Wrapped(200, Null)) }

\* The call the listener awaits goes on to state r after meeting outcome;
\* when that ends the call, the handler goes on with its loop.
RemoveReceive(o, outcome, r) ==
  LET a == Answer(o)
      delivered == Delivered(outcome, a.answer)
      ended == [r EXCEPT !.allOk = ops[o].allOk /\ delivered
                                     /\ a.answer.self.statusCode = {200}]
      held == IF delivered THEN a.files ELSE bucket
      e == removeHandlerResume(listener, config, ended, held)
  IN  /\ bucket' = held
      /\ nextId' = IF delivered THEN a.id ELSE nextId
      /\ IF r.pc \in {"done", "failed"}
         THEN listener' = e.listener /\ ops' = [ops EXCEPT ![o] = e.op]
         ELSE listener' = listener /\ ops' = [ops EXCEPT ![o] = ended]

RemoveAuthorized(o) ==
  /\ listener.pc = "awaiting"
  /\ ops[o].pc = "b2_authorize_account"
  /\ \E outcome \in ListenerOutcomes(Answer(o).answer) :
       RemoveReceive(o, outcome, deleteAuthorized(ops[o], config, outcome))
  /\ UNCHANGED <<menu, plugin, applied, config, clock>>

RemoveListed(o) ==
  /\ listener.pc = "awaiting"
  /\ ops[o].pc = "b2_list_file_names"
  /\ \E outcome \in ListenerOutcomes(Answer(o).answer) :
       RemoveReceive(o, outcome, deleteListed(ops[o], outcome))
  /\ UNCHANGED <<menu, plugin, applied, config, clock>>

RemoveAnswered(o) ==
  /\ listener.pc = "awaiting"
  /\ ops[o].pc = "b2_delete_file_version"
  /\ \E outcome \in ListenerOutcomes(Answer(o).answer) :
       RemoveReceive(o, outcome, deleteAnswered(ops[o], outcome))
  /\ UNCHANGED <<menu, plugin, applied, config, clock>>

NextRemove ==
  \E o \in Slots :
    \/ EmitRemove(o)
    \/ RemoveAuthorized(o)
    \/ RemoveListed(o)
    \/ RemoveAnswered(o)

RemoveSpec == InitRemove /\ [][NextRemove]_vars

\* ------------------------------------------- two operations interleaved

\* Two calls of the public operations (handle, deleteB2File) are in
\* progress at once; each runs up to its next await, and the awaited
\* requests settle in any order.
RaceSlots == {1, 2}

\* The service gives each authorize call a session of its own and each
\* get-upload-url call a lease of its own: these are the ones it gives the
\* call in slot o.  All sessions of the account carry the same rights.
SessionOf(o) == <<"session1", "session2">>[o]
ApiUrlOf(o) == <<"https://api001", "https://api002">>[o]
LeaseOf(o) == <<"lease1", "lease2">>[o]
UploadUrlOf(o) == <<"https://pod1/b2_upload_file", "https://pod2/b2_upload_file">>[o]

\* The request as the service reads it: any of its sessions, any of its leases.
Canonical(req) ==
  [req EXCEPT !.authorization =
     IF @ \in {SessionOf(o) : o \in RaceSlots} THEN AuthBody.authorizationToken
     ELSE IF @ \in {LeaseOf(o) : o \in RaceSlots} THEN LeaseBody.authorizationToken
     ELSE @]

\* The service's answer as the call in slot o gets it.
Personal(o, answer) ==
  [answer EXCEPT
     !.body.apiUrl = IF @ = AuthBody.apiUrl THEN ApiUrlOf(o) ELSE @,
     !.body.uploadUrl = IF @ = LeaseBody.uploadUrl THEN UploadUrlOf(o) ELSE @,
     !.body.authorizationToken =
        IF @ = AuthBody.authorizationToken THEN SessionOf(o)
        ELSE IF @ = LeaseBody.authorizationToken THEN LeaseOf(o)
        ELSE @]

RaceAnswer(o) == Service(Canonical(Pending(o)), bucket, nextId)

\* What an awaited request meets: a transport failure, or the service's
\* answer through the transport of the operation (ctx.request for handle,
\* makeRequest for deleteB2File).
RaceOutcomes(o) ==
  LET answer == Personal(o, RaceAnswer(o).answer)
  IN  {Rejected, Resolved(IF ops[o].kind = "upload" THEN ViaHost(answer) ELSE answer)}

\* The batches handle is called with: one picture, and the picture with a
\* second item.
RaceBatches ==
  { <<Item(Buffer(<<65, 200>>), <<"a", ".", "p", "n", "g">>, <<".", "p", "n", "g">>)>>,
    <<Item(Buffer(<<65, 200>>), <<"a", ".", "p", "n", "g">>, <<".", "p", "n", "g">>),
      Item(Buffer(<<>>), <<"n">>, <<>>)>> }

InitRace ==
  /\ config = GoodConfig
  /\ bucket = Uploaded(RemoveKeys(config), {}, 1).files
  /\ nextId = Uploaded(RemoveKeys(config), {}, 1).id
  /\ clock = 1
  /\ ops = [o \in RaceSlots |-> IdleOp]
  /\ listener = IdleListener
  /\ plugin = Unloaded
  /\ menu = IdleMenu
  /\ applied = <<>>

RaceUpload(o) ==
  /\ ops[o].pc = "idle"
  /\ \E output \in RaceBatches : ops' = [ops EXCEPT ![o] = handleEntry(config, output)]
  /\ UNCHANGED <<menu, plugin, applied, config, bucket, nextId, clock, listener>>

\* deleteB2File is called for the key of an object uploaded earlier, which
\* the bucket holds or has held.
RaceDelete(o) ==
  /\ ops[o].pc = "idle"
  /\ \E n \in 1..Len(RemoveKeys(config)) :
       ops' = [ops EXCEPT ![o] =
                 [deleteB2FileEntry(RemoveKeys(config)[n], config) EXCEPT !.before = bucket]]
  /\ UNCHANGED <<menu, plugin, applied, config, bucket, nextId, clock, listener>>

\* The call in slot o from the settling of its awaited request to its next
\* await or its end.
RaceContinueOwn(o, outcome, timestamp, randomStr) ==
  LET r == ops[o]
  IN  CASE r.kind = "upload" /\ r.pc = "b2_authorize_account" ->
             handleAuthorized(r, config, outcome)
        [] r.kind = "upload" /\ r.pc = "b2_get_upload_url" ->
             handleLeased(r, config, outcome, timestamp, randomStr)
        [] r.kind = "upload" /\ r.pc = "b2_upload_file" ->
             handleUploaded(r, config, outcome, timestamp, randomStr)
        [] r.kind = "delete" /\ r.pc = "b2_authorize_account" ->
             deleteAuthorized(r, config, outcome)
        [] r.kind = "delete" /\ r.pc = "b2_list_file_names" ->
             deleteListed(r, outcome)
        [] r.kind = "delete" /\ r.pc = "b2_delete_file_version" ->
             deleteAnswered(r, outcome)

\* Mutant: sessions are cached across calls, so that a request goes out
\* with the session another call in progress has obtained.
RaceContinueCached(o, outcome, timestamp, randomStr) ==
  LET r == RaceContinueOwn(o, outcome, timestamp, randomStr)
      others == {p \in RaceSlots \ {o} : ops[p].auth # NoSession}
      p == CHOOSE q \in others : TRUE
  IN  IF others = {} \/ Len(r.reqs) = Len(ops[o].reqs)
         \/ r.reqs[Len(r.reqs)].op = "b2_upload_file"
      THEN r
      ELSE [r EXCEPT !.reqs[Len(r.reqs)].authorization = ops[p].auth.authToken,
                     !.reqs[Len(r.reqs)].url = ops[p].auth.apiUrl]

RaceContinue(o, outcome, timestamp, randomStr) ==
  RaceContinueOwn(o, outcome, timestamp, randomStr)

\* The request the call in slot o awaits settles.
RaceSettle(o) ==
  /\ ops[o].pc \notin {"idle", "done", "failed"}
  /\ \E outcome \in RaceOutcomes(o), randomStr \in RandomStrs :
       LET a == RaceAnswer(o)
           r == RaceContinue(o, outcome, clock, randomStr)
       IN  /\ ops' = [ops EXCEPT ![o] =
                        [r EXCEPT !.allOk = ops[o].allOk /\ ~outcome.rejected
                                              /\ a.answer.self.statusCode = {200}]]
           /\ bucket' = IF outcome.rejected THEN bucket ELSE a.files
           /\ nextId' = IF outcome.rejected THEN nextId ELSE a.id
  /\ UNCHANGED <<menu, plugin, applied, config, clock, listener>>

NextRace ==
  \E o \in RaceSlots :
    \/ RaceUpload(o)
    \/ RaceDelete(o)
    \/ RaceSettle(o)

RaceSpec == InitRace /\ [][NextRace]_vars

\* ================================================================ claims

Uploads(o) == {k \in 1..Len(ops[o].reqs) : ops[o].reqs[k].op = "b2_upload_file"}

\* The values a response carries, wherever the transport put them.
Carried(outcome) ==
  IF outcome.rejected THEN {}
  ELSE {outcome.result.self, outcome.result.body, outcome.result.data}

\* The part of a URL after its last '/'.
LastSegment(url) == SubstringFrom(url, LastIndexOf(url, "/") + 1)

HasUrl(item) == item.imgUrl # <<Undefined>> /\ item.url # <<Undefined>>
HasNoUrl(item) == item.imgUrl = <<Undefined>> /\ item.url = <<Undefined>>

\* C1: in an upload batch the first request, and only the first, is the
\* authorize request; a get-upload-url request is the second request, is
\* sent after the authorize response arrived and carries the apiUrl and the
\* authorizationToken of that response (the session); every upload request
\* comes after the get-upload-url response and carries the upload URL and
\* upload token the operation took from it (the lease).
C1_RequestOrder ==
  \A o \in Slots :
    ops[o].kind = "upload" =>
      LET reqs == ops[o].reqs
          resps == ops[o].resps
      IN  \A k \in 1..Len(reqs) :
            /\ (k = 1) <=> (reqs[k].op = "b2_authorize_account")
            /\ reqs[k].op \in {"b2_authorize_account", "b2_get_upload_url", "b2_upload_file"}
            /\ reqs[k].op = "b2_get_upload_url" =>
                 /\ k = 2
                 /\ Len(resps) >= 1
                 /\ reqs[k].url = ops[o].auth.apiUrl
                 /\ reqs[k].authorization = ops[o].auth.authToken
                 /\ \E body \in Carried(resps[1]) :
                      /\ body.apiUrl = reqs[k].url
                      /\ body.authorizationToken = reqs[k].authorization
                 /\ ~Falsy(reqs[k].url) /\ ~Falsy(reqs[k].authorization)
            /\ reqs[k].op = "b2_upload_file" =>
                 /\ k >= 3
                 /\ reqs[2].op = "b2_get_upload_url"
                 /\ Len(resps) >= k - 1
                 /\ reqs[k].url = ops[o].uploadInfo.uploadUrl
                 /\ reqs[k].authorization = ops[o].uploadInfo.uploadAuthToken
                 /\ \E body \in Carried(resps[2]) :
                      /\ body.uploadUrl = reqs[k].url
                      /\ body.authorizationToken = reqs[k].authorization

\* A batch that went through authorize, get-upload-url and two uploads.
C1_Witness ==
  \E o \in Slots :
    /\ ops[o].kind = "upload"
    /\ ops[o].pc = "done"
    /\ Cardinality(Uploads(o)) = 2
    /\ ops[o].reqs[3].url = LeaseBody.uploadUrl

\* C2: every upload request carries, as its checksum, the digest of exactly
\* the bytes it sends as its body, and as its content length the number of
\* those bytes; the body is the buffer of the item the request is for.
C2_ChecksumOfBody ==
  \A o \in Slots :
    \A k \in Uploads(o) :
      LET req == ops[o].reqs[k]
      IN  /\ req.item \in 1..Len(ops[o].output)
          /\ ops[o].output[req.item].buffer.some
          /\ req.body = ops[o].output[req.item].buffer.bytes
          /\ req.contentSha1 = sha1(req.body)
          /\ req.contentLength = Len(req.body)

\* An upload request whose body holds a byte outside ASCII.
C2_Witness ==
  \E o \in Slots :
    \E k \in Uploads(o) :
      /\ ops[o].reqs[k].body = <<65, 200>>
      /\ ops[o].reqs[k].contentLength = 2

\* C3: when authorizeAccount or getUploadUrl fails on the response it got,
\* handle has thrown, no upload request was sent and no item has a URL.
C3_FailsWholeBatch ==
  \A o \in Slots :
    ops[o].kind = "upload" =>
      LET resps == ops[o].resps
          failed == \/ Len(resps) >= 1 /\ ~authorizeAccount(resps[1]).ok
                    \/ Len(resps) >= 2 /\ ~getUploadUrl(resps[2]).ok
      IN  failed =>
            /\ ops[o].pc = "failed"
            /\ ops[o].error # NoError
            /\ Uploads(o) = {}
            /\ \A j \in 1..Len(ops[o].output) : HasNoUrl(ops[o].output[j])

\* The lease request failed for a batch that holds an item with a buffer.
C3_Witness ==
  \E o \in Slots :
    /\ ops[o].kind = "upload"
    /\ ops[o].failedIn = "b2_get_upload_url"
    /\ \E j \in 1..Len(ops[o].output) : ops[o].output[j].buffer.some

\* The configuration is absent, or one of the four required fields is
\* missing or empty.
Unconfigured(cfg) ==
  \/ ~cfg.present
  \/ cfg.applicationKeyId \in {Undefined, ""}
  \/ cfg.applicationKey \in {Undefined, ""}
  \/ cfg.bucketId \in {Undefined, ""}
  \/ cfg.bucketName \in {<<Undefined>>, <<>>}

\* C4: with such a configuration handle has thrown after emitting one
\* notification, has sent no request and has left every item as it was.
C4_ConfigCheckedFirst ==
  \A o \in Slots :
    (ops[o].kind = "upload" /\ Unconfigured(config)) =>
      /\ ops[o].pc = "failed"
      /\ ops[o].error # NoError
      /\ Len(ops[o].notifications) = 1
      /\ ops[o].reqs = <<>>
      /\ ops[o].resps = <<>>
      /\ ops[o].output \in Batches

\* handle was called with a batch under a configuration whose bucket name
\* is empty.
C4_Witness ==
  \E o \in Slots :
    /\ ops[o].kind = "upload"
    /\ config.present
    /\ config.bucketName = <<>>
    /\ Len(ops[o].output) > 0

\* C5: an item has a URL exactly when an upload request for it was answered
\* with success; the URL's last path segment is then the file-name header
\* of that request, character for character, and imgUrl and url are the
\* same URL.
C5_UrlKeyIsHeader ==
  \A o \in Slots :
    ops[o].kind = "upload" =>
      \A j \in 1..Len(ops[o].output) :
        LET item == ops[o].output[j]
            answered == {k \in Uploads(o) : /\ ops[o].reqs[k].item = j
                                            /\ k <= Len(ops[o].resps)
                                            /\ uploadFile(ops[o].resps[k]).ok}
        IN  /\ (answered # {}) <=> (item.imgUrl # <<Undefined>>)
            /\ \A k \in answered :
                 /\ LastSegment(item.imgUrl) = ops[o].reqs[k].fileName
                 /\ item.url = item.imgUrl

\* An item uploaded under a path prefix: its key holds a '/'.
C5_Witness ==
  \E o \in Slots :
    /\ ops[o].kind = "upload"
    /\ config.pathPrefix = <<"p", "/">>
    /\ \E j \in 1..Len(ops[o].output) : HasUrl(ops[o].output[j])

\* s without its trailing slashes.
RECURSIVE StripSlashes(_)
StripSlashes(s) == IF EndsWithChar(s, "/") THEN StripSlashes(DropLast(s)) ELSE s

\* C6: the URL of an uploaded item is, under a custom domain, the domain
\* without trailing slashes, one '/' and the encoded key (so no "//" comes
\* before the key), and otherwise downloadUrl/file/bucketName/ and the
\* encoded key.
C6_UrlShape ==
  \A o \in Slots :
    ops[o].kind = "upload" =>
      \A k \in Uploads(o) :
        LET item == ops[o].output[ops[o].reqs[k].item]
            key == ops[o].reqs[k].fileName
        IN  item.imgUrl # <<Undefined>> =>
              item.imgUrl =
                IF config.customDomain \notin {<<Undefined>>, <<>>}
                THEN StripSlashes(config.customDomain) \o <<"/">> \o key
                ELSE <<ops[o].auth.downloadUrl, "/", "f", "i", "l", "e", "/">>
                       \o config.bucketName \o <<"/">> \o key

\* C7 as stated: once handle has returned, every item of the batch has a URL.
C7_EveryItemHasUrl ==
  \A o \in Slots :
    (ops[o].kind = "upload" /\ ops[o].pc = "done") =>
      \A j \in 1..Len(ops[o].output) : HasUrl(ops[o].output[j])

\* C7, amended: once handle has returned, every item that has a buffer has
\* a URL (imgUrl and url, the same), and an item without a buffer has none.
C7_ItemsWithBufferHaveUrl ==
  \A o \in Slots :
    (ops[o].kind = "upload" /\ ops[o].pc = "done") =>
      \A j \in 1..Len(ops[o].output) :
        LET item == ops[o].output[j]
        IN  IF item.buffer.some THEN HasUrl(item) /\ item.url = item.imgUrl
            ELSE HasNoUrl(item)

\* handle returned for a batch of an item with an (empty) buffer and one
\* without a buffer.
C7_Witness ==
  \E o \in Slots :
    /\ ops[o].kind = "upload"
    /\ ops[o].pc = "done"
    /\ Len(ops[o].output) = 2
    /\ ops[o].output[1].buffer = Buffer(<<>>)
    /\ ~ops[o].output[2].buffer.some

\* ------------------------------------------------- claims on deleteB2File

Deletes(o) == {k \in 1..Len(ops[o].reqs) : ops[o].reqs[k].op = "b2_delete_file_version"}

\* The response resolved with the given status.
HasStatus(outcome, status) ==
  ~outcome.rejected /\ outcome.result.self.statusCode = {status}

\* The files of a list response whose name is exactly fileName.
ExactIn(outcome, fileName) ==
  IF outcome.result.body.t = "object"
  THEN {outcome.result.body.files[k] : k \in Matches(outcome.result.body.files, fileName)}
  ELSE {}

\* C8: in a delete operation the first request, and only the first, is the
\* authorize request; a list request is the second request and follows an
\* authorize response of status 200; a delete request is the third request,
\* follows a list response of status 200 that holds a file named exactly as
\* asked, and carries that file's fileId and fileName; a list response of
\* another status makes the operation fail without a delete request.
C8_DeleteOrder ==
  \A o \in Slots :
    ops[o].kind = "delete" =>
      LET reqs == ops[o].reqs
          resps == ops[o].resps
      IN  /\ \A k \in 1..Len(reqs) :
               /\ (k = 1) <=> (reqs[k].op = "b2_authorize_account")
               /\ (k = 2) <=> (reqs[k].op = "b2_list_file_names")
               /\ (k = 3) <=> (reqs[k].op = "b2_delete_file_version")
          /\ Len(reqs) >= 2 =>
               /\ Len(resps) >= 1
               /\ HasStatus(resps[1], 200)
               /\ reqs[2].prefix = ops[o].target
          /\ Len(reqs) >= 3 =>
               /\ Len(resps) >= 2
               /\ HasStatus(resps[2], 200)
               /\ reqs[3].fileName = ops[o].target
               /\ \E f \in ExactIn(resps[2], ops[o].target) :
                    /\ reqs[3].fileId = f.fileId
                    /\ reqs[3].fileName = f.fileName
          /\ (Len(resps) >= 2 /\ ~HasStatus(resps[2], 200)) =>
               /\ ops[o].pc = "failed"
               /\ Deletes(o) = {}

\* Both outcomes of the list step: a delete request went out after a list
\* response with a match, and an operation failed on a list response of
\* status 400.
C8_Witness ==
  \E o \in Slots :
    /\ ops[o].kind = "delete"
    /\ Len(ops[o].reqs) = 3
    /\ Len(ops[o].resps[2].result.body.files) = 2

C8_WitnessListFailed ==
  \E o \in Slots :
    /\ ops[o].kind = "delete"
    /\ Len(ops[o].resps) = 2
    /\ HasStatus(ops[o].resps[2], 400)

\* The versions of the name the operation was asked to delete that the
\* bucket held when it started, and the one a listing shows.
Held(o) == {f \in ops[o].before : f.fileName = ops[o].target}
Shown(o) == Newest(ops[o].before) \cap Held(o)

\* C9: a delete operation for the key of an uploaded object, every remote
\* call of which is answered by the service with success, does not fail;
\* once it has returned it reports success, has sent exactly one delete
\* request, for that object, and the object is no longer in the bucket (nor
\* is its name, when the object was the only version of it).
C9_DeletesUploadedObject ==
  \A o \in Slots :
    (ops[o].kind = "delete" /\ Held(o) # {} /\ ops[o].allOk /\ ops[o].resps # <<>>) =>
      /\ ops[o].pc # "failed"
      /\ ops[o].pc = "done" =>
           /\ ops[o].result.success
           /\ Cardinality(Deletes(o)) = 1
           /\ \A k \in Deletes(o) :
                [fileId |-> ops[o].reqs[k].fileId, fileName |-> ops[o].reqs[k].fileName]
                  \in Shown(o)
           /\ Shown(o) \cap bucket = {}
           /\ bucket = ops[o].before \ Shown(o)
           /\ Cardinality(Held(o)) = 1 => \A f \in bucket : f.fileName # ops[o].target

\* A delete operation returned for a key stored under a path prefix, in a
\* bucket that holds another object as well.
C9_Witness ==
  \E o \in Slots :
    /\ ops[o].kind = "delete"
    /\ ops[o].pc = "done"
    /\ ops[o].allOk
    /\ Held(o) # {}
    /\ Cardinality(ops[o].before) = 2
    /\ Cardinality(bucket) = 1
    /\ StartsWith(ops[o].target, <<"p", "/">>)

\* C10: after a list response of status 200 whose file list holds no file
\* named exactly as asked, the operation has returned success and has sent
\* no delete request.
C10_AbsentIsSuccess ==
  \A o \in Slots :
    ( /\ ops[o].kind = "delete"
      /\ Len(ops[o].resps) >= 2
      /\ HasStatus(ops[o].resps[2], 200)
      /\ ops[o].resps[2].result.body.t = "object"
      /\ ExactIn(ops[o].resps[2], ops[o].target) = {} ) =>
      /\ ops[o].pc = "done"
      /\ ops[o].result.success
      /\ Deletes(o) = {}
      /\ Len(ops[o].reqs) = 2
      /\ bucket = ops[o].before

\* The list response held only a longer name that starts with the name
\* asked for.
C10_Witness ==
  \E o \in Slots :
    /\ ops[o].kind = "delete"
    /\ ops[o].pc = "done"
    /\ Len(ops[o].resps) = 2
    /\ HasStatus(ops[o].resps[2], 200)
    /\ Len(ops[o].resps[2].result.body.files) = 1
    /\ ops[o].resps[2].result.body.files[1].fileName # ops[o].target
    /\ StartsWith(ops[o].resps[2].result.body.files[1].fileName, ops[o].target)

\* C11: every delete request of a delete operation names exactly the key
\* the operation was asked to delete, with the fileId of a file of that name
\* in the list response, whatever the listing held; and every version the
\* bucket has lost since the operation started bears that name.
C11_ExactNameOnly ==
  \A o \in Slots :
    ops[o].kind = "delete" =>
      /\ \A k \in Deletes(o) :
           /\ ops[o].reqs[k].fileName = ops[o].target
           /\ \E i \in 1..Len(ops[o].resps[2].result.body.files) :
                LET f == ops[o].resps[2].result.body.files[i]
                IN  f.fileName = ops[o].target /\ f.fileId = ops[o].reqs[k].fileId
      /\ \A f \in ops[o].before \ bucket : f.fileName = ops[o].target

\* A delete request went out after a listing whose first file has a longer
\* name that starts with the name asked for.
C11_Witness ==
  \E o \in Slots :
    /\ ops[o].kind = "delete"
    /\ Deletes(o) # {}
    /\ LET first == ops[o].resps[2].result.body.files[1].fileName
       IN  first # ops[o].target /\ StartsWith(first, ops[o].target)

\* ------------------------------------------- claims on the remove listener

\* The file at position j of the event has the type 'b2' and a URL that
\* yields a non-empty file name.
Eligible(j) ==
  /\ listener.files[j].type = "b2"
  /\ extractFileNameFromUrl(listener.files[j].imgUrl, config.bucketName) \notin {<<>>, NoFileName}

\* A deleteB2File call for position j has ended after sending a request.
Attempted(j) ==
  \E c \in 1..Len(listener.calls) :
    listener.calls[c].item = j /\ listener.calls[c].op.reqs # <<>>

\* C12: under a configuration, no error leaves the handler; every eligible
\* file the loop has gone past had its delete call made (a request was
\* sent for it), whatever the earlier calls met; the call awaited is for an
\* eligible file and each eligible file gets one call in list order; and
\* the handler ends only with the loop past the last file.
C12_ListenerIsolation ==
  config.present =>
    /\ listener.pc \in {"idle", "awaiting", "done"}
    /\ \A j \in 1..Len(listener.files) : (j < listener.i /\ Eligible(j)) => Attempted(j)
    /\ \A c \in 1..Len(listener.calls) :
         /\ listener.calls[c].item < listener.i
         /\ \A d \in 1..Len(listener.calls) :
              c < d => listener.calls[c].item < listener.calls[d].item
    /\ listener.pc = "awaiting" =>
         /\ listener.i \in 1..Len(listener.files)
         /\ Eligible(listener.i)
         /\ \A o \in Slots : ops[o].reqs # <<>>
    /\ listener.pc = "done" => listener.i = Len(listener.files) + 1

\* The handler ended after two calls, the first of which failed and the
\* second of which deleted its object.
C12_Witness ==
  /\ listener.pc = "done"
  /\ Len(listener.calls) = 2
  /\ listener.calls[1].op.pc = "failed"
  /\ listener.calls[2].op.pc = "done"
  /\ Len(listener.calls[2].op.reqs) = 3

\* The requests sent for the file at position j: those of the calls ended
\* and of the call awaited.
RequestsFor(j) ==
  {c \in 1..Len(listener.calls) : listener.calls[c].item = j /\ listener.calls[c].op.reqs # <<>>}
    \cup {o \in Slots : listener.pc = "awaiting" /\ listener.i = j /\ ops[o].reqs # <<>>}

\* C13: no request is sent for a file that is not eligible; the loop goes
\* past it, and an eligible file behind it still gets its call.
C13_SkipsOtherFiles ==
  config.present =>
    \A j \in 1..Len(listener.files) :
      /\ ~Eligible(j) =>
           /\ RequestsFor(j) = {}
           /\ listener.i # j
           /\ j < listener.i => j \in listener.skipped
      /\ (Eligible(j) /\ j < listener.i) => (j \notin listener.skipped /\ RequestsFor(j) # {})

\* The handler ended for an event whose first file has another type and
\* whose second file was deleted.
C13_Witness ==
  /\ listener.pc = "done"
  /\ Len(listener.files) = 2
  /\ listener.files[1].type = "github"
  /\ listener.skipped = {1}
  /\ Len(listener.calls) = 1
  /\ listener.calls[1].item = 2
  /\ listener.calls[1].op.pc = "done"

\* The handler went past a file of type 'b2' whose URL does not parse.
C13_WitnessNoUrl ==
  /\ listener.pc = "done"
  /\ Len(listener.files) = 2
  /\ listener.files[1].imgUrl = <<Undefined>>
  /\ Len(listener.calls) = 1

\* C14: the file name the handler derives from the URL handle built for a
\* storage key is that key, so that each call of the handler is for the key
\* its file was uploaded under, in either URL shape.
C14_RoundTrip ==
  /\ \A c \in 1..Len(listener.calls) :
       listener.calls[c].op.target = listener.files[listener.calls[c].item].key
  /\ \A j \in 1..Len(listener.files) :
       LET file == listener.files[j]
       IN  (config.present /\ file.key # <<>>) =>
             extractFileNameFromUrl(buildFileUrl(AuthBody.downloadUrl, config.bucketName,
                                                 file.key, config.customDomain),
                                    config.bucketName) = file.key

\* ------------------------------------- claims on interleaved operations

\* Every request of the call in slot o was answered (none met a transport
\* failure).
AllAnswered(o) == \A k \in 1..Len(ops[o].resps) : ~ops[o].resps[k].rejected

\* No version of the name the call in slot o was asked to delete is in the
\* bucket.
Gone(o) == \A f \in bucket : f.fileName # ops[o].target

\* C15: a delete operation that has ended, all of whose requests were
\* answered by the service, and whose object is gone from the bucket, has
\* reported success, whether the object went before the operation listed
\* it or between its list request and its delete request.
C15_Idempotent ==
  \A o \in RaceSlots :
    ( /\ ops[o].kind = "delete"
      /\ ops[o].pc \in {"done", "failed"}
      /\ AllAnswered(o)
      /\ Gone(o) ) =>
      ops[o].pc = "done" /\ ops[o].result.success

\* ------------------------------------------ further claims on handle

\* The upload request at position k of the call in slot o got a response
\* that uploadFile took for a failure (a rejection included).
UploadFailed(o, k) ==
  /\ k \in Uploads(o)
  /\ k <= Len(ops[o].resps)
  /\ ~uploadFile(ops[o].resps[k]).ok

\* C16: after an upload request has failed, a later upload request with the
\* same upload URL and upload token is sent only if a get-upload-url
\* request was sent in between.
C16_LeaseNotReused ==
  \A o \in Slots :
    \A k \in Uploads(o) :
      UploadFailed(o, k) =>
        \A j \in Uploads(o) :
          ( /\ j > k
            /\ ops[o].reqs[j].url = ops[o].reqs[k].url
            /\ ops[o].reqs[j].authorization = ops[o].reqs[k].authorization ) =>
            \E m \in (k + 1)..(j - 1) : ops[o].reqs[m].op = "b2_get_upload_url"

\* The first upload of a batch of two items with buffers failed.
C16_Witness ==
  \E o \in Slots :
    /\ UploadFailed(o, 3)
    /\ Len(ops[o].output) = 2
    /\ \A j \in 1..2 : ops[o].output[j].buffer.some
    /\ ops[o].pc = "failed"

\* The positions of the requests of kind op the call in slot o has sent.
Sent(o, op) == {k \in 1..Len(ops[o].reqs) : ops[o].reqs[k].op = op}

\* C17: a batch that got past its configuration check has sent exactly one
\* authorize request and at most one get-upload-url request, however many
\* items it holds; at most one request is awaited at a time; and an upload
\* request for an item is sent only when every earlier item with a buffer
\* has had its upload request, answered with success, before it.
C17_OneSessionSequentialUploads ==
  \A o \in Slots :
    (ops[o].kind = "upload" /\ ops[o].failedIn # "config") =>
      /\ Cardinality(Sent(o, "b2_authorize_account")) = 1
      /\ Cardinality(Sent(o, "b2_get_upload_url")) <= 1
      /\ Len(ops[o].reqs) <= Len(ops[o].resps) + 1
      /\ \A k \in Uploads(o) :
           /\ \A m \in Uploads(o) :
                m < k => /\ ops[o].reqs[m].item < ops[o].reqs[k].item
                         /\ uploadFile(ops[o].resps[m]).ok
           /\ \A j \in 1..(ops[o].reqs[k].item - 1) :
                ops[o].output[j].buffer.some =>
                  \E m \in Uploads(o) : m < k /\ ops[o].reqs[m].item = j

\* The upload of the second of two items is awaited, the first being done.
C17_Witness ==
  \E o \in Slots :
    /\ ops[o].pc = "b2_upload_file"
    /\ Len(ops[o].reqs) = 4
    /\ Len(ops[o].resps) = 3
    /\ ops[o].reqs[3].item = 1
    /\ ops[o].reqs[4].item = 2
    /\ HasUrl(ops[o].output[1])

\* C18: with two operations interleaved, every request an operation sends
\* after its authorize request carries the API URL and session token of the
\* operation's own authorize response or, for an upload request, the upload
\* URL and upload token of its own get-upload-url response, and nothing the
\* service gave to the other operation.
C18_OwnSessionOnly ==
  \A o \in RaceSlots :
    \A k \in 2..Len(ops[o].reqs) :
      LET req == ops[o].reqs[k]
      IN  /\ IF req.op = "b2_upload_file"
             THEN /\ req.url = UploadUrlOf(o)
                  /\ req.authorization = LeaseOf(o)
                  /\ \E body \in Carried(ops[o].resps[2]) :
                       body.uploadUrl = req.url /\ body.authorizationToken = req.authorization
             ELSE /\ req.url = ApiUrlOf(o)
                  /\ req.authorization = SessionOf(o)
                  /\ \E body \in Carried(ops[o].resps[1]) :
                       body.apiUrl = req.url /\ body.authorizationToken = req.authorization
          /\ \A p \in RaceSlots \ {o} :
               /\ req.authorization \notin {SessionOf(p), LeaseOf(p)}
               /\ req.url \notin {ApiUrlOf(p), UploadUrlOf(p)}

\* An upload batch awaits an upload and a delete operation awaits its delete
\* request at the same time, each holding a session of its own.
C18_Witness ==
  \E o \in RaceSlots :
    \E p \in RaceSlots \ {o} :
      /\ ops[o].kind = "upload"
      /\ ops[o].pc = "b2_upload_file"
      /\ ops[p].kind = "delete"
      /\ ops[p].pc = "b2_delete_file_version"
      /\ ops[o].auth.authToken # ops[p].auth.authToken

\* C19: a call of handle that has thrown, at any step, has emitted exactly
\* one notification, with a title and a body; a call that has not thrown
\* has emitted none.
C19_OneNotificationPerThrow ==
  \A o \in Slots :
    ops[o].kind = "upload" =>
      IF ops[o].pc = "failed"
      THEN /\ ops[o].error # NoError
           /\ Len(ops[o].notifications) = 1
           /\ ops[o].notifications[1].title \notin {"", Undefined}
           /\ ops[o].notifications[1].body \notin {"", Undefined}
      ELSE ops[o].notifications = <<>>

\* handle threw on the upload of the second item of a batch.
C19_Witness ==
  \E o \in Slots :
    /\ ops[o].kind = "upload"
    /\ ops[o].pc = "failed"
    /\ ops[o].failedIn = "b2_upload_file"
    /\ ops[o].i = 2
    /\ Len(ops[o].notifications) = 1

\* The messages that name a step: the fixed part of the errors the wrappers
\* of the two flows throw for it.
StepMessages(step) ==
  CASE step = "b2_authorize_account" -> {"Authorization request failed", "authorization failed"}
    [] step = "b2_get_upload_url" -> {"Get upload URL failed"}
    [] step = "b2_upload_file" -> {"Upload failed"}
    [] step = "b2_list_file_names" -> {"list failed"}
    [] step = "b2_delete_file_version" -> {"delete failed"}
    [] OTHER -> {}

\* C20: an operation whose last request met a transport failure has failed
\* with an error whose message names the step of that request and carries
\* the transport's message as its detail.
C20_TransportFailureNamesStep ==
  \A o \in Slots :
    ( /\ ops[o].resps # <<>>
      /\ Len(ops[o].resps) = Len(ops[o].reqs)
      /\ ops[o].resps[Len(ops[o].resps)].rejected ) =>
      /\ ops[o].pc = "failed"
      /\ ops[o].error.msg \in StepMessages(ops[o].reqs[Len(ops[o].reqs)].op)
      /\ ops[o].error.detail = "transport"

\* ------------------------------------------------------------ termination

\* C21: every call of handle eventually returns or throws.
C21_Terminates ==
  \A o \in Slots : <>(ops[o].pc \in {"done", "failed"})

\* ------------------------------------------- removal without configuration

\* C22: under an absent configuration, or one that lacks a required field,
\* the remove listener and the delete calls it makes send no request.
C22_NoRequestUnconfigured ==
  Unconfigured(config) =>
    /\ \A o \in Slots : ops[o].reqs = <<>>
    /\ \A c \in 1..Len(listener.calls) : listener.calls[c].op.reqs = <<>>

\* The half of C22 the listener keeps: no configuration, no request.
C22_NoRequestWithoutConfig ==
  ~config.present =>
    /\ \A o \in Slots : ops[o].reqs = <<>>
    /\ listener.calls = <<>>

\* -------------------------------------------------------- names of uploads

\* Math.random().toString(36).substring(2, 8), from the digits the base-36
\* rendering has after "0.".
randomStrOf(fraction) == Substring(<<"0", ".">> \o fraction, 2, 8)

\* The configurations differ in the path prefix: none, empty, and one that
\* ends with no, one and two slashes.
InitNaming ==
  /\ config \in { [GoodConfig EXCEPT !.pathPrefix = p] :
                    p \in { <<Undefined>>, <<>>, <<"p">>, <<"p", "/">>, <<"p", "/", "/">> } }
  /\ bucket = {}
  /\ nextId = 1
  /\ clock = 1
  /\ ops = [o \in Slots |-> IdleOp]
  /\ listener = IdleListener
  /\ plugin = Unloaded
  /\ menu = IdleMenu
  /\ applied = <<>>

\* handle names one more item: generateUniqueFileName reads the clock and
\* draws a random number, then the prefix is put in front.  The names have
\* one dot, two dots and none; the draws are a long fraction and the short
\* ones of 0.5, 0.25 and 0.265625.
GenerateName ==
  /\ Len(applied) < MaxItems
  /\ \E originalName \in { <<"a", ".", "p", "n", "g">>, <<"a", ".", "b", ".", "p", "n", "g">>,
                           <<"x">>, <<"k", "9", "x">> },
        fraction \in { <<"k", "3", "x", "9", "a", "b", "q", "7">>, <<"i">>, <<"9">>,
                       <<"9", "k", "9">> },
        timestamp \in clock..MaxClock :
       /\ applied' = Append(applied,
            [originalName |-> originalName, timestamp |-> timestamp,
             fraction |-> fraction, randomStr |-> randomStrOf(fraction),
             unique |-> generateUniqueFileName(originalName, timestamp, randomStrOf(fraction)),
             uploadFileName |-> UploadFileName(originalName, config.pathPrefix, timestamp,
                                               randomStrOf(fraction))])
       /\ clock' = timestamp
  /\ UNCHANGED <<menu, plugin, config, bucket, nextId, ops, listener>>

NamingSpec == InitNaming /\ [][GenerateName]_vars

\* ------------------------------------------------ claims on upload names

HasDot(name) == \E k \in 1..Len(name) : name[k] = "."

Base36 ==
  { "0", "1", "2", "3", "4", "5", "6", "7", "8", "9", "a", "b", "c", "d", "e", "f", "g",
    "h", "i", "j", "k", "l", "m", "n", "o", "p", "q", "r", "s", "t", "u", "v", "w", "x",
    "y", "z" }

\* C24: a name without a dot is the base and the extension is empty: the
\* unique name is the name, "_", the timestamp, "_" and the token, and
\* nothing after the token.
C24_NoDotNameIsBase ==
  \A k \in 1..Len(applied) :
    ~HasDot(applied[k].originalName) =>
      applied[k].unique = applied[k].originalName \o <<"_">> \o Decimal(applied[k].timestamp)
                            \o <<"_">> \o applied[k].randomStr

\* The prefix cut back to where its trailing slashes begin.
RECURSIVE StripTrailingSlashes(_)
StripTrailingSlashes(p) ==
  IF EndsWithChar(p, "/") THEN StripTrailingSlashes(DropLast(p)) ELSE p

\* C25: under a prefix the storage key is the prefix brought to end with
\* exactly one slash, then the unique name; without a prefix it is the
\* unique name.
C25_PrefixEndsWithOneSlash ==
  \A k \in 1..Len(applied) :
    applied[k].uploadFileName =
      IF FalsyText(config.pathPrefix) THEN applied[k].unique
      ELSE StripTrailingSlashes(config.pathPrefix) \o <<"/">> \o applied[k].unique

\* The part of C25 that holds: a prefix that ends with at most one slash.
C25_PrefixWithAtMostOneSlash ==
  ~EndsWithChar(DropLast(config.pathPrefix), "/") => C25_PrefixEndsWithOneSlash

\* C26: a name with a dot gives base, "_", the timestamp, "_", a token and
\* the extension, cut at the last dot, and the token has exactly six
\* characters of 0-9a-z.
C26_DottedNameSixCharToken ==
  \A k \in 1..Len(applied) :
    LET a == applied[k]
        dot == LastIndexOf(a.originalName, ".")
    IN  HasDot(a.originalName) =>
          /\ a.unique = SubSeq(a.originalName, 1, dot) \o <<"_">> \o Decimal(a.timestamp)
                          \o <<"_">> \o a.randomStr
                          \o SubSeq(a.originalName, dot + 1, Len(a.originalName))
          /\ Len(a.randomStr) = 6
          /\ \A c \in 1..Len(a.randomStr) : a.randomStr[c] \in Base36

\* The part of C26 that holds: the shape of the name, with a token of at
\* most six characters.
C26_DottedNameShape ==
  \A k \in 1..Len(applied) :
    LET a == applied[k]
        dot == LastIndexOf(a.originalName, ".")
    IN  HasDot(a.originalName) =>
          /\ a.unique = SubSeq(a.originalName, 1, dot) \o <<"_">> \o Decimal(a.timestamp)
                          \o <<"_">> \o a.randomStr
                          \o SubSeq(a.originalName, dot + 1, Len(a.originalName))
          /\ Len(a.randomStr) <= 6
          /\ \A c \in 1..Len(a.randomStr) : a.randomStr[c] \in Base36

\* C27: two names generated from different (timestamp, token) pairs give
\* different storage keys.
C27_DistinctPairsDistinctKeys ==
  \A k, l \in 1..Len(applied) :
    <<applied[k].timestamp, applied[k].randomStr>> # <<applied[l].timestamp, applied[l].randomStr>>
      => applied[k].uploadFileName # applied[l].uploadFileName

\* The part of C27 that holds: both names have a dot.
C27_DistinctPairsDistinctDottedKeys ==
  \A k, l \in 1..Len(applied) :
    /\ HasDot(applied[k].originalName) /\ HasDot(applied[l].originalName)
    /\ <<applied[k].timestamp, applied[k].randomStr>> # <<applied[l].timestamp, applied[l].randomStr>>
    => applied[k].uploadFileName # applied[l].uploadFileName

\* -------------------------------------------------- results of the transport

\* The values a field of a raw result can hold: undefined (no such field),
\* null, '', 0, false, a text that is not JSON, a text that is, an object.
FieldValues ==
  { NoValue, Null, [Text EXCEPT !.truthy = FALSE], [NoValue EXCEPT !.t = "number"],
    [NoValue EXCEPT !.t = "boolean"], Text,
    [Text EXCEPT !.json = TRUE, !.message = "parsed"], [Obj EXCEPT !.message = "object"] }

\* The raw results: objects with and without statusCode, status, body and
\* data, an object that is the payload itself, and results that are not
\* objects (undefined, null, a text, a number).
RawResults ==
  { [self |-> [Obj EXCEPT !.statusCode = sc, !.status = st], body |-> b, data |-> d] :
      sc \in {{}, {0}, {200}, {404}}, st \in {{}, {0}, {500}},
      b \in FieldValues, d \in FieldValues }
    \cup { Direct(p) : p \in { NoValue, Null, Text, [NoValue EXCEPT !.t = "number"],
                                [Obj EXCEPT !.message = "object", !.apiUrl = "https://api001"] } }

\* A request function hands its result to parseResponse.
ApplyParseResponse ==
  /\ applied = <<>>
  /\ \E result \in RawResults :
       applied' = <<[result |-> result, parsed |-> parseResponse(result)]>>
  /\ UNCHANGED <<menu, plugin, config, bucket, nextId, clock, ops, listener>>

ParseSpec == Init /\ [][ApplyParseResponse]_vars

\* ------------------------------------------------- claims on parseResponse

\* The status a raw object holds in statusCode or in status: the number of
\* the one field it has, or the number both hold.
StatusOf(result) == result.self.statusCode \cup result.self.status

\* The one of body and data the raw object has.
FieldOf(result) == IF result.body.t # "undefined" THEN result.body ELSE result.data

OneField(result) == (result.body.t = "undefined") # (result.data.t = "undefined")

\* C29: a raw object whose status is a number outside 200..299, 0 included,
\* gives that number as statusCode, and as body its body or data field,
\* parsed when it is a text that parses.
C29_FailingStatusKept ==
  \A k \in 1..Len(applied) :
    LET result == applied[k].result
    IN  /\ result.self.t = "object"
        /\ \E n \in StatusOf(result) : StatusOf(result) = {n} /\ (n < 200 \/ n >= 300)
        => /\ applied[k].parsed.statusCode = StatusOf(result)
           /\ OneField(result) => applied[k].parsed.body = ParseIfString(FieldOf(result))

\* The part of C29 that holds: a status other than 0, and a field that is
\* truthy.
C29_NonZeroFailingStatusKept ==
  \A k \in 1..Len(applied) :
    LET result == applied[k].result
    IN  /\ result.self.t = "object"
        /\ \E n \in StatusOf(result) :
             StatusOf(result) = {n} /\ n # 0 /\ (n < 200 \/ n >= 300)
        => /\ applied[k].parsed.statusCode = StatusOf(result)
           /\ OneField(result) /\ FieldOf(result).truthy
                => applied[k].parsed.body = ParseIfString(FieldOf(result))

\* No status, or one within 200..299.
NotFailing(result) == \A n \in StatusOf(result) : n >= 200 /\ n < 300

\* C30: a raw object without a failing status that has a body or a data
\* field gives statusCode 200 and that field as body, parsed when it is a
\* text that parses, whatever the field holds.
C30_FieldIsBody ==
  \A k \in 1..Len(applied) :
    LET result == applied[k].result
    IN  result.self.t = "object" /\ NotFailing(result) /\ OneField(result)
        => /\ applied[k].parsed.statusCode = {200}
           /\ applied[k].parsed.body = ParseIfString(FieldOf(result))

\* The part of C30 that holds: a field that is truthy.
C30_TruthyFieldIsBody ==
  \A k \in 1..Len(applied) :
    LET result == applied[k].result
    IN  /\ result.self.t = "object" /\ NotFailing(result) /\ OneField(result)
        /\ FieldOf(result).truthy
        => /\ applied[k].parsed.statusCode = {200}
           /\ applied[k].parsed.body = ParseIfString(FieldOf(result))

\* ---------------------------------------------------------------- the plugin

\* module.exports(ctx): the plugin object, with the menu and the commands of
\* the GUI module when it has them.
moduleExports(p) ==
  [p EXCEPT !.pc = "constructed",
            !.result = {"register", "uploader"}
                         \cup (IF p.guiModule.present
                               THEN p.guiModule.exports \cap {"guiMenu", "commands"}
                               ELSE {})]

\* Mutant: register calls registerRemoveListener outside a try block.
registerUncaught(p, onThrows) ==
  LET q == [p EXCEPT !.pc = "registered", !.uploaders = @ \cup {"b2"}]
  IN  IF q.guiModule.present /\ "registerRemoveListener" \in q.guiModule.exports
      THEN IF onThrows
           THEN [q EXCEPT !.thrown = TRUE]
           ELSE [q EXCEPT !.listeners = @ \cup {"remove"},
                          !.log = Append(@, [level |-> "info", text |-> "listener registered"])]
      ELSE q

\* register(ctx): the uploader, then registerRemoveListener(ctx) when the GUI
\* module has it: ctx.on('remove', ...) and a log line.  onThrows: ctx.on
\* throws; the catch block logs a warning.
register(p, onThrows) ==
  LET q == [p EXCEPT !.pc = "registered", !.uploaders = @ \cup {"b2"}]
  IN  IF q.guiModule.present /\ "registerRemoveListener" \in q.guiModule.exports
      THEN IF onThrows
           THEN [q EXCEPT !.log = Append(@, [level |-> "warn",
                                             text |-> "GUI registration failed"])]
           ELSE [q EXCEPT !.listeners = @ \cup {"remove"},
                          !.log = Append(@, [level |-> "info", text |-> "listener registered"])]
      ELSE q

\* The host requires index.js, whose require('./gui.js') gives the module
\* or throws, and calls what it exports.
LoadPlugin ==
  /\ plugin.pc = "unloaded"
  /\ \E guiModule \in { [present |-> FALSE, exports |-> {}],
                        [present |-> TRUE,
                         exports |-> {"guiMenu", "registerRemoveListener", "commands"}] } :
       plugin' = moduleExports([plugin EXCEPT !.guiModule = guiModule])
  /\ UNCHANGED <<menu, applied, config, bucket, nextId, clock, ops, listener>>

\* The host calls the plugin object's register(ctx).
RegisterPlugin ==
  /\ plugin.pc = "constructed"
  /\ \E onThrows \in BOOLEAN : plugin' = register(plugin, onThrows)
  /\ UNCHANGED <<menu, applied, config, bucket, nextId, clock, ops, listener>>

\* After registration the host emits 'remove' events to the listeners it
\* holds.
NextRegister ==
  \/ LoadPlugin
  \/ RegisterPlugin
  \/ \E o \in Slots :
       \/ "remove" \in plugin.listeners /\ EmitRemove(o)
       \/ RemoveAuthorized(o)
       \/ RemoveListed(o)
       \/ RemoveAnswered(o)

RegisterSpec == InitRemove /\ [][NextRegister]_vars

\* ----------------------------------------------------- claims on the plugin

\* C23: without the GUI module, and when registering the remove listener
\* throws, construction and register succeed: the plugin object has register
\* and uploader, 'b2' is registered and no error leaves register; without
\* the module no remove listener is installed, none ever runs, and the
\* plugin object has neither guiMenu nor commands.
C23_RegistersWithoutGui ==
  /\ plugin.pc \in {"constructed", "registered"} =>
       {"register", "uploader"} \subseteq plugin.result
  /\ plugin.pc = "registered" => "b2" \in plugin.uploaders /\ ~plugin.thrown
  /\ plugin.pc # "unloaded" /\ ~plugin.guiModule.present =>
       /\ plugin.listeners = {}
       /\ plugin.result \cap {"guiMenu", "commands"} = {}
       /\ listener.pc = "idle"

\* Registering the remove listener threw, and register returned.
C23_Witness ==
  /\ plugin.pc = "registered"
  /\ plugin.guiModule.present
  /\ \E k \in 1..Len(plugin.log) : plugin.log[k].level = "warn"
  /\ plugin.listeners = {}
  /\ "b2" \in plugin.uploaders

\* The GUI module is absent, and register returned.
C23_WitnessAbsent ==
  /\ plugin.pc = "registered"
  /\ ~plugin.guiModule.present
  /\ "b2" \in plugin.uploaders

\* ------------------------------------------------- claims on credentials

\* The credentials the configuration holds.
Secrets ==
  IF config.present THEN {config.applicationKeyId, config.applicationKey} \ {Undefined, ""}
  ELSE {}

\* A line of the log that holds a credential among the texts put into it.
Leaks(line) ==
  \E a \in 1..Len(line.args) : \E c \in 1..Len(line.args[a]) : line.args[a][c] \in Secrets

\* What an operation logged, told the host and sent holds no credential
\* outside its authorize requests, which carry the configuration's pair.
KeepsSecrets(r) ==
  /\ \A k \in 1..Len(r.log) : ~Leaks(r.log[k])
  /\ \A k \in 1..Len(r.notifications) :
       r.notifications[k].title \notin Secrets /\ r.notifications[k].body \notin Secrets
  /\ \A k \in 1..Len(r.reqs) :
       IF r.reqs[k].op = "b2_authorize_account"
       THEN /\ r.reqs[k].keyId = config.applicationKeyId
            /\ r.reqs[k].key = config.applicationKey
            /\ r.reqs[k].authorization = Undefined
       ELSE /\ r.reqs[k].keyId = Undefined /\ r.reqs[k].key = Undefined
            /\ {r.reqs[k].url, r.reqs[k].authorization, r.reqs[k].bucketId}
                 \cap Secrets = {}

Bare(result) ==
  /\ result.self.t = "object"
  /\ StatusOf(result) = {}
  /\ result.body.t = "undefined" /\ result.data.t = "undefined"

\* C31: a raw object with none of statusCode, status, body and data comes
\* back as statusCode 200 with the raw object itself as the body.
C31_BareObjectIsBody ==
  \A k \in 1..Len(applied) :
    Bare(applied[k].result) =>
      /\ applied[k].parsed.statusCode = {200}
      /\ applied[k].parsed.body = applied[k].result.self

\* parseResponse was given a payload object that is no wrapper.
C31_Witness ==
  \E k \in 1..Len(applied) :
    /\ Bare(applied[k].result)
    /\ applied[k].result.self.message = "object"
    /\ applied[k].parsed.body.apiUrl = "https://api001"

\* C32: the statusCode of the result is a number whatever the raw result
\* is; a raw result that is no object is the body of a success, status 200.
C32_StatusCodeIsNumber ==
  \A k \in 1..Len(applied) :
    /\ applied[k].parsed.statusCode # {}
    /\ applied[k].result.self.t # "object" =>
         /\ applied[k].parsed.statusCode = {200}
         /\ applied[k].parsed.body = applied[k].result.self

\* The part of C32 that holds: the statusCode of an object's result is a
\* number, and a raw result that is no object is the body.
C32_ObjectStatusCodeIsNumber ==
  \A k \in 1..Len(applied) :
    /\ applied[k].result.self.t = "object" =>
         applied[k].parsed.statusCode # {}
    /\ applied[k].result.self.t # "object" => applied[k].parsed.body = applied[k].result.self

\* ------------------------------------------------ claims on the two leases

\* C33: getUploadUrl throws on a status other than 200 and on a response
\* that lacks uploadUrl or authorizationToken, so that no upload request
\* goes out with an undefined URL or an undefined token.
C33_NoUploadWithoutLease ==
  \A o \in DOMAIN ops :
    /\ \A k \in 1..Len(ops[o].reqs) :
         ops[o].reqs[k].op = "b2_upload_file" =>
           ~Falsy(ops[o].reqs[k].url) /\ ~Falsy(ops[o].reqs[k].authorization)
    /\ ops[o].kind = "upload" /\ Len(ops[o].resps) >= 2 /\ ~getUploadUrl(ops[o].resps[2]).ok =>
         ops[o].pc = "failed" /\ ops[o].failedIn = "b2_get_upload_url"

\* The part of C33 that holds: getUploadUrl throws on a rejected request
\* and on a status other than 200, and no upload request follows.
C33_FailsOnStatus ==
  \A o \in DOMAIN ops :
    /\ ops[o].kind = "upload" /\ Len(ops[o].resps) >= 2
    /\ \/ ops[o].resps[2].rejected
       \/ parseResponse(ops[o].resps[2].result).statusCode # {200}
    => /\ ops[o].pc = "failed" /\ ops[o].failedIn = "b2_get_upload_url"
       /\ \A k \in 1..Len(ops[o].reqs) : ops[o].reqs[k].op # "b2_upload_file"

\* The authorize response of an upload batch calls for a failure: the
\* request was rejected, the status is not 200, or the body lacks apiUrl
\* or authorizationToken.
BadAuthorization(outcome) ==
  \/ outcome.rejected
  \/ parseResponse(outcome.result).statusCode # {200}
  \/ Falsy(parseResponse(outcome.result).body.apiUrl)
  \/ Falsy(parseResponse(outcome.result).body.authorizationToken)

C34_WitnessMissingToken ==
  \E o \in DOMAIN ops :
    /\ ops[o].kind = "upload" /\ ops[o].failedIn = "b2_authorize_account"
    /\ ops[o].resps # <<>> /\ ~ops[o].resps[1].rejected
    /\ parseResponse(ops[o].resps[1].result).statusCode = {200}
    /\ parseResponse(ops[o].resps[1].result).body.authorizationToken = Undefined

C36_SessionOfResponse ==
  \A o \in DOMAIN ops :
    ops[o].kind = "upload" /\ ops[o].resps # <<>> /\ ~BadAuthorization(ops[o].resps[1]) =>
      LET body == parseResponse(ops[o].resps[1].result).body
      IN  /\ ops[o].auth.apiUrl = body.apiUrl
          /\ ops[o].auth.authToken = body.authorizationToken
          /\ ops[o].auth.downloadUrl =
               IF body.downloadUrl # Undefined THEN body.downloadUrl ELSE body.apiUrl
          /\ ops[o].reqs[2].url = body.apiUrl
          /\ ops[o].reqs[2].authorization = body.authorizationToken

\* The response held all three, the download URL differing from the API
\* URL, and an item got its URL under the download URL.
C36_Witness ==
  \E o \in DOMAIN ops :
    /\ ops[o].kind = "upload" /\ ops[o].resps # <<>> /\ ~BadAuthorization(ops[o].resps[1])
    /\ parseResponse(ops[o].resps[1].result).body.downloadUrl = "https://f001"
    /\ ops[o].auth = [apiUrl |-> "https://api001", authToken |-> "session1",
                      downloadUrl |-> "https://f001"]
    /\ \E k \in 1..Len(ops[o].output) : ops[o].output[k].imgUrl # <<Undefined>>

\* The response held no downloadUrl, and the session's is the API URL.
C36_WitnessFallback ==
  \E o \in DOMAIN ops :
    /\ ops[o].kind = "upload" /\ ops[o].resps # <<>> /\ ~BadAuthorization(ops[o].resps[1])
    /\ parseResponse(ops[o].resps[1].result).body.downloadUrl = Undefined
    /\ ops[o].auth.downloadUrl = "https://api001"

\* --------------------------------------------- claims on a failed upload

\* C37: when the upload of an item fails, handle has thrown; the failed
\* request is the last request of the batch; the items before it that were
\* uploaded have their URLs, and the item and all later items have none.
C37_FailedUploadAborts ==
  \A o \in DOMAIN ops :
    \A k \in 1..Len(ops[o].reqs) :
      UploadFailed(o, k) =>
        LET i == ops[o].reqs[k].item
        IN  /\ ops[o].pc = "failed" /\ ops[o].failedIn = "b2_upload_file"
            /\ ops[o].error # NoError
            /\ k = Len(ops[o].reqs)
            /\ \A j \in 1..Len(ops[o].output) :
                 IF j < i /\ ops[o].output[j].buffer.some
                 THEN HasUrl(ops[o].output[j])
                 ELSE HasNoUrl(ops[o].output[j])

\* The first item was uploaded and has its URL, the upload of the second
\* failed.
C37_Witness ==
  \E o \in DOMAIN ops :
    /\ ops[o].pc = "failed"
    /\ Len(ops[o].output) = 2
    /\ HasUrl(ops[o].output[1]) /\ HasNoUrl(ops[o].output[2])
    /\ \E k \in 1..Len(ops[o].reqs) : UploadFailed(o, k) /\ ops[o].reqs[k].item = 2

\* ------------------------------------------------- content types of a batch

\* handle works out the content type of one more item.  The extensions are
\* those of the table in lower case, in upper case and in mixed case, ones
\* the table does not hold, the empty one and a missing one.
ApplyContentType ==
  /\ Len(applied) < MaxItems
  /\ \E extname \in
         { <<".", "j", "p", "g">>, <<".", "j", "p", "e", "g">>, <<".", "p", "n", "g">>,
           <<".", "g", "i", "f">>, <<".", "w", "e", "b", "p">>, <<".", "s", "v", "g">>,
           <<".", "b", "m", "p">>, <<".", "i", "c", "o">>,
           <<".", "J", "P", "G">>, <<".", "J", "P", "E", "G">>, <<".", "P", "N", "G">>,
           <<".", "G", "I", "F">>, <<".", "W", "E", "B", "P">>, <<".", "S", "V", "G">>,
           <<".", "B", "M", "P">>, <<".", "I", "C", "O">>,
           <<".", "J", "p", "g">>, <<".", "p", "N", "g">>, <<".", "w", "e", "B", "P">>,
           <<".", "t", "x", "t">>, <<".", "T", "X", "T">>, <<".", "j", "p">>,
           <<"p", "n", "g">>, <<".">>, <<>>, <<Undefined>> } :
       applied' = Append(applied, [extname |-> extname, contentType |-> contentTypeOf(extname)])
  /\ UNCHANGED <<menu, plugin, config, bucket, nextId, clock, ops, listener>>

ContentSpec == Init /\ [][ApplyContentType]_vars

\* --------------------------------------------------- claims on content types

\* The table of the claim: extension, in lower case, and type.
TypeTable ==
  { <<<<".", "j", "p", "g">>, "image/jpeg">>, <<<<".", "j", "p", "e", "g">>, "image/jpeg">>,
    <<<<".", "p", "n", "g">>, "image/png">>, <<<<".", "g", "i", "f">>, "image/gif">>,
    <<<<".", "w", "e", "b", "p">>, "image/webp">>, <<<<".", "s", "v", "g">>, "image/svg+xml">>,
    <<<<".", "b", "m", "p">>, "image/bmp">>, <<<<".", "i", "c", "o">>, "image/x-icon">> }

\* A letter and its capital.
Capitals ==
  { <<"j", "J">>, <<"p", "P">>, <<"g", "G">>, <<"e", "E">>, <<"n", "N">>, <<"i", "I">>,
    <<"f", "F">>, <<"w", "W">>, <<"b", "B">>, <<"s", "S">>, <<"v", "V">>, <<"m", "M">>,
    <<"c", "C">>, <<"o", "O">> }

\* written is the lower-case text lower, up to the case of its letters.
SameButCase(written, lower) ==
  /\ Len(written) = Len(lower)
  /\ \A c \in 1..Len(lower) : written[c] = lower[c] \/ <<lower[c], written[c]>> \in Capitals

\* C38: an extension that is an entry of the table, whatever the case of
\* its letters, gets the entry's type; every other extension, the empty one
\* and a missing one get application/octet-stream.
C38_ContentTypeTable ==
  \A k \in 1..Len(applied) :
    LET entries == {e \in TypeTable : SameButCase(applied[k].extname, e[1])}
    IN  IF entries = {} THEN applied[k].contentType = "application/octet-stream"
        ELSE \A e \in entries : applied[k].contentType = e[2]

\* An extension in capitals got its type, and a missing one the default.
C38_Witness ==
  /\ \E k \in 1..Len(applied) :
       applied[k].extname = <<".", "W", "E", "B", "P">> /\ applied[k].contentType = "image/webp"
  /\ \E k \in 1..Len(applied) :
       applied[k].extname = <<Undefined>> /\ applied[k].contentType = "application/octet-stream"

\* ------------------------------------------------- the menu's delete item

\* String.prototype.trim, on blanks.
RECURSIVE trim(_)
trim(s) ==
  IF s # <<>> /\ s[1] = " " THEN trim(Tail(s))
  ELSE IF s # <<>> /\ s[Len(s)] = " " THEN trim(DropLast(s))
  ELSE s

\* The user picks the delete item of the menu, or presses the key of the
\* quickDelete command, which calls guiMenu(ctx)[1].handle when the menu has
\* a second item.  Without a configuration the menu has one item, a notice.
StartMenuDelete ==
  /\ menu.pc = "idle"
  /\ \E via \in {"menu", "command"} :
       IF config.present
       THEN menu' = [menu EXCEPT !.pc = "input", !.via = via]
       ELSE via = "command" /\ menu' = [menu EXCEPT !.pc = "done", !.via = via]
  /\ UNCHANGED <<plugin, applied, config, bucket, nextId, clock, ops, listener>>

\* showInputBox resolves: nothing (the box was dismissed), an empty text, a
\* blank one, the name of a stored file, that name between blanks, a name
\* the bucket does not hold.
AnswerInput ==
  /\ menu.pc = "input"
  /\ \E fileName \in { <<Undefined>>, <<>>, <<" ", " ">>, <<"z">> }
                       \cup {f.fileName : f \in bucket}
                       \cup {<<" ">> \o f.fileName \o <<" ">> : f \in bucket} :
       menu' = IF FalsyText(fileName) \/ trim(fileName) = <<>>
               THEN [menu EXCEPT !.pc = "done", !.fileName = fileName]
               ELSE [menu EXCEPT !.pc = "confirm", !.fileName = fileName]
  /\ UNCHANGED <<plugin, applied, config, bucket, nextId, clock, ops, listener>>

\* Mutant: the button chosen is not looked at.
AnswerConfirmAnyButton(o) ==
  /\ menu.pc = "confirm"
  /\ ops[o].pc = "idle"
  /\ \E button \in {0, 1} :
       LET call == [deleteB2FileEntry(trim(menu.fileName), config) EXCEPT !.before = bucket]
           told == [menu EXCEPT !.button = {button},
                                !.shown = Append(@, <<"B2", "deleting">>)]
       IN  IF call.pc = "failed"
           THEN /\ menu' = [told EXCEPT !.pc = "done",
                                        !.shown = Append(@, <<"B2 delete failed", call.error.msg>>)]
                /\ ops' = [ops EXCEPT ![o] = call]
           ELSE /\ menu' = [told EXCEPT !.pc = "deleting"]
                /\ ops' = [ops EXCEPT ![o] = call]
  /\ UNCHANGED <<plugin, applied, config, bucket, nextId, clock, listener>>

\* showMessageBox resolves with the button chosen, 0 to cancel and 1 to
\* delete: on 1 a notification, then deleteB2File(fileName.trim(), ...) up
\* to its first await; an error it throws at once goes to the catch block.
AnswerConfirm(o) ==
  /\ menu.pc = "confirm"
  /\ ops[o].pc = "idle"
  /\ \E button \in {0, 1} :
       LET call == [deleteB2FileEntry(trim(menu.fileName), config) EXCEPT !.before = bucket]
           told == [menu EXCEPT !.button = {button},
                                !.shown = Append(@, <<"B2", "deleting">>)]
       IN  IF button # 1
           THEN menu' = [menu EXCEPT !.pc = "done", !.button = {button}] /\ ops' = ops
           ELSE IF call.pc = "failed"
           THEN /\ menu' = [told EXCEPT !.pc = "done",
                                        !.shown = Append(@, <<"B2 delete failed", call.error.msg>>)]
                /\ ops' = [ops EXCEPT ![o] = call]
           ELSE /\ menu' = [told EXCEPT !.pc = "deleting"]
                /\ ops' = [ops EXCEPT ![o] = call]
  /\ UNCHANGED <<plugin, applied, config, bucket, nextId, clock, listener>>

\* An awaited request of the call settles: deleteB2File goes on to its next
\* await, or ends, and then the handler shows the result's message, or in
\* its catch block the error's.
MenuDeleteSettles(o) ==
  /\ menu.pc = "deleting"
  /\ ops[o].pc \in {"b2_authorize_account", "b2_list_file_names", "b2_delete_file_version"}
  /\ \E outcome \in
         CASE ops[o].pc = "b2_authorize_account" -> NodeAuthorizeOutcomes(Answer(o).answer)
           [] ops[o].pc = "b2_list_file_names" ->
                NodeListOutcomes(Answer(o).answer, bucket, ops[o].target)
           [] OTHER -> NodeDeleteOutcomes(Answer(o).answer) :
       LET r == CASE ops[o].pc = "b2_authorize_account" ->
                       deleteAuthorized(ops[o], config, outcome)
                  [] ops[o].pc = "b2_list_file_names" -> deleteListed(ops[o], outcome)
                  [] OTHER -> deleteAnswered(ops[o], outcome)
       IN  /\ Receive(o, outcome, r)
           /\ menu' = CASE r.pc = "done" ->
                             [menu EXCEPT !.pc = "done",
                                          !.shown = Append(@, <<"B2 delete result",
                                                                r.result.message>>)]
                        [] r.pc = "failed" ->
                             [menu EXCEPT !.pc = "done",
                                          !.shown = Append(@, <<"B2 delete failed",
                                                                r.error.msg>>)]
                        [] OTHER -> menu
  /\ UNCHANGED <<plugin, applied, config, clock, listener>>

NextMenu ==
  \/ StartMenuDelete
  \/ AnswerInput
  \/ \E o \in Slots : AnswerConfirm(o) \/ MenuDeleteSettles(o)

MenuSpec == InitRemove /\ [][NextMenu]_vars

\* ------------------------------------------ claims on the menu's delete item

\* C39: a request is sent only after the user entered a name that is not
\* blank and chose the delete button; after a cancellation at either step
\* the handler has ended, nothing was sent and the bucket is as it was; a
\* delete that failed was shown as a notification and no error left the
\* handler.
C39_DeleteMenuAsksFirst ==
  \A o \in Slots :
    /\ ops[o].reqs # <<>> =>
         /\ ~FalsyText(menu.fileName) /\ trim(menu.fileName) # <<>>
         /\ menu.button = {1}
         /\ ops[o].target = trim(menu.fileName)
    /\ menu.pc = "done" /\ menu.button # {1} =>
         /\ ops[o] = IdleOp
         /\ bucket = Uploaded(RemoveKeys(config), {}, 1).files
         /\ menu.shown = <<>>
    /\ menu.pc = "done" /\ ops[o].pc = "failed" =>
         /\ menu.shown[Len(menu.shown)] = <<"B2 delete failed", ops[o].error.msg>>
         /\ ~menu.thrown
    /\ ops[o].pc \in {"done", "failed"} => menu.pc = "done"

\* The user entered a stored name between blanks and chose delete, through
\* the command; the file is gone and the result was shown.
C39_Witness ==
  \E o \in Slots :
    /\ menu.pc = "done" /\ menu.via = "command" /\ menu.button = {1}
    /\ menu.fileName # trim(menu.fileName)
    /\ ops[o].pc = "done"
    /\ Len(ops[o].reqs) = 3
    /\ bucket # Uploaded(RemoveKeys(config), {}, 1).files
    /\ menu.shown[Len(menu.shown)] = <<"B2 delete result", "deleted">>

\* The user entered a stored name and chose cancel.
C39_WitnessCancelled ==
  /\ menu.pc = "done" /\ menu.button = {0}
  /\ \E f \in bucket : f.fileName = menu.fileName

\* The delete failed and the failure was shown.
C39_WitnessFailed ==
  \E o \in Slots :
    /\ menu.pc = "done" /\ ops[o].pc = "failed" /\ ops[o].reqs # <<>>
    /\ menu.shown[Len(menu.shown)][1] = "B2 delete failed"

====
